---- MODULE Spec2Model ----
(***************************************************************************)
(* Kill calculator of lol_assistant: calculate_kill_chance, its helpers,   *)
(* the reference tables it reads, and format_result.                       *)
(*                                                                         *)
(* Numbers.  The program computes with floats; the model computes with     *)
(* fixed-point integers:                                                   *)
(*   - armor, MR, HP, damage, shields : hundredths  (64.0  is 6400)        *)
(*   - table ratios and multipliers   : hundredths  (1.15  is 115)         *)
(*   - fractions: HP fractions, kill ratio, confidence, penalties,         *)
(*     thresholds                     : 1/10000     (0.80  is 8000)        *)
(*   - game time                      : tenths of a second (10 s is 100)   *)
(* A quotient is truncated to its unit.  The thresholds, the penalties and *)
(* the rounding steps of the program are multiples of 1/10000, so          *)
(* comparing or rounding the truncated kill ratio gives what comparing or  *)
(* rounding the exact quotient gives (except when the exact quotient is a  *)
(* decimal tie, where the float's binary expansion decides).               *)
(*                                                                         *)
(* Python values.  None is <<>> and a present optional value x is <<x>>; a *)
(* dict is a function whose DOMAIN is the set of keys present; a list is a *)
(* sequence.  Non-ASCII characters of the program's texts are              *)
(* transliterated.                                                         *)
(***************************************************************************)
EXTENDS Integers, Sequences, FiniteSets, TLC

\* ---------------------------------------------------------------- units

\* 1.0 as a fraction
Unit == 10 * 1000

\* 1.0 as a stat, HP or damage amount, and as a table ratio
Centi == 10 * 10

\* ------------------------------------------------------- Python values

None == <<>>

Some(x) == <<x>>

\* dict.get(k, default)
Get(d, k, default) == IF k \in DOMAIN d THEN d[k] ELSE default

\* the tagged shapes of ITEM_STATS[...]["passive_shield"]: a number or a str
Num(x) == [num |-> x]

Str(s) == [str |-> s]

Max(a, b) == IF a >= b THEN a ELSE b

Min(a, b) == IF a <= b THEN a ELSE b

\* ------------------------------------------------------- fixed point

\* floor(a * num / den) for a >= 0, without forming a * num
Scale(a, num, den) == (a \div den) * num + ((a % den) * num) \div den

\* the first n decimal digits of r / c, for 0 <= r < c
RECURSIVE LongDiv(_, _, _)
LongDiv(r, c, n) ==
  IF n = 0 THEN 0
  ELSE LET d == (r * 10) \div c
           e == LongDiv((r * 10) % c, c, n - 1)
       IN  d * (10 ^ (n - 1)) + e

\* floor(a * 10000 / c) for a >= 0, c > 0: a / c as a fraction, or
\* a * (100 / c) with 100 and c in hundredths
Ratio(a, c) == (a \div c) * Unit + LongDiv(a % c, c, 4)

\* round(x, n) of a computed float: x to the nearest multiple of step.  The
\* model's x is the float's value truncated to its unit, so a model tie is a
\* float at or above the tie and is rounded up.
RoundTo(x, step) ==
  IF x >= 0 THEN ((x + step \div 2) \div step) * step
  ELSE -(((-x) + step \div 2) \div step) * step

\* the formats :.0f and :.0% of a reported field: to the nearest multiple of
\* step, an exact tie to the even multiple (the fields are already rounded
\* to a decimal, so a tie x.5 is exact in the float too)
RoundHalfEven(x, step) ==
  LET lo == (x \div step) * step
      r  == x - lo
  IN  IF 2 * r < step THEN lo
      ELSE IF 2 * r > step THEN lo + step
      ELSE IF (lo \div step) % 2 = 0 THEN lo ELSE lo + step

\* f"{x:.0f}" of an amount in hundredths
Fmt0f(x) == ToString(RoundHalfEven(x, Centi) \div Centi)

\* f"{x}" of a table multiplier in hundredths: 125 is "1.25", 60 is "0.6"
FmtFloat(x) ==
  LET f == x % Centi
  IN  ToString(x \div Centi) \o "."
        \o (IF f % 10 = 0 THEN ToString(f \div 10)
            ELSE IF f < 10 THEN "0" \o ToString(f) ELSE ToString(f))

\* f"{x:.0%}" of a fraction
FmtPct(x) == ToString(RoundHalfEven(x, Centi) \div Centi) \o "%"

\* ------------------------------------------------------- reference tables

CHAMPION_STATS ==
     ("belveth" :> [base_armor |-> 2100, armor_per_level |-> 470,
        base_mr |-> 3200, mr_per_level |-> 205,
        base_hp |-> 64000, hp_per_level |-> 10500])
  @@ ("khazix" :> [base_armor |-> 2100, armor_per_level |-> 420,
        base_mr |-> 3200, mr_per_level |-> 205,
        base_hp |-> 58500, hp_per_level |-> 10000])
  @@ ("jarvaniv" :> [base_armor |-> 3600, armor_per_level |-> 460,
        base_mr |-> 3200, mr_per_level |-> 205,
        base_hp |-> 59200, hp_per_level |-> 10000])
  @@ ("vi" :> [base_armor |-> 3300, armor_per_level |-> 470,
        base_mr |-> 3200, mr_per_level |-> 205,
        base_hp |-> 61300, hp_per_level |-> 9500])
  @@ ("nocturne" :> [base_armor |-> 3300, armor_per_level |-> 420,
        base_mr |-> 3200, mr_per_level |-> 205,
        base_hp |-> 58200, hp_per_level |-> 8500])
  @@ ("warwick" :> [base_armor |-> 3300, armor_per_level |-> 470,
        base_mr |-> 3200, mr_per_level |-> 205,
        base_hp |-> 65300, hp_per_level |-> 9900])
  @@ ("masteryi" :> [base_armor |-> 3300, armor_per_level |-> 350,
        base_mr |-> 3200, mr_per_level |-> 125,
        base_hp |-> 65400, hp_per_level |-> 9900])
  @@ ("ekko" :> [base_armor |-> 2400, armor_per_level |-> 420,
        base_mr |-> 3200, mr_per_level |-> 205,
        base_hp |-> 65500, hp_per_level |-> 10900])
  @@ ("elise" :> [base_armor |-> 2400, armor_per_level |-> 400,
        base_mr |-> 3200, mr_per_level |-> 125,
        base_hp |-> 55300, hp_per_level |-> 9200])
  @@ ("briar" :> [base_armor |-> 2600, armor_per_level |-> 470,
        base_mr |-> 3200, mr_per_level |-> 205,
        base_hp |-> 64500, hp_per_level |-> 11400])
  @@ ("graves" :> [base_armor |-> 3000, armor_per_level |-> 400,
        base_mr |-> 3200, mr_per_level |-> 205,
        base_hp |-> 57000, hp_per_level |-> 9500])
  @@ ("xinzhao" :> [base_armor |-> 3300, armor_per_level |-> 420,
        base_mr |-> 3200, mr_per_level |-> 205,
        base_hp |-> 60000, hp_per_level |-> 10000])
  @@ ("reksai" :> [base_armor |-> 3600, armor_per_level |-> 470,
        base_mr |-> 3200, mr_per_level |-> 205,
        base_hp |-> 57500, hp_per_level |-> 8500])
  @@ ("fiddlesticks" :> [base_armor |-> 2100, armor_per_level |-> 400,
        base_mr |-> 4000, mr_per_level |-> 205,
        base_hp |-> 58000, hp_per_level |-> 10200])
  @@ ("shaco" :> [base_armor |-> 2100, armor_per_level |-> 350,
        base_mr |-> 3200, mr_per_level |-> 125,
        base_hp |-> 56000, hp_per_level |-> 9000])
  @@ ("viego" :> [base_armor |-> 3300, armor_per_level |-> 470,
        base_mr |-> 3200, mr_per_level |-> 205,
        base_hp |-> 60000, hp_per_level |-> 10000])
  @@ ("hecarim" :> [base_armor |-> 3100, armor_per_level |-> 470,
        base_mr |-> 3200, mr_per_level |-> 205,
        base_hp |-> 59300, hp_per_level |-> 9300])
  @@ ("darius" :> [base_armor |-> 3900, armor_per_level |-> 400,
        base_mr |-> 3200, mr_per_level |-> 205,
        base_hp |-> 65000, hp_per_level |-> 11400])
  @@ ("kayle" :> [base_armor |-> 2600, armor_per_level |-> 400,
        base_mr |-> 3200, mr_per_level |-> 125,
        base_hp |-> 61000, hp_per_level |-> 10300])
  @@ ("veigar" :> [base_armor |-> 1800, armor_per_level |-> 400,
        base_mr |-> 3000, mr_per_level |-> 50,
        base_hp |-> 55000, hp_per_level |-> 10400])
  @@ ("lucian" :> [base_armor |-> 2800, armor_per_level |-> 470,
        base_mr |-> 3000, mr_per_level |-> 50,
        base_hp |-> 60000, hp_per_level |-> 9500])
  @@ ("nautilus" :> [base_armor |-> 4600, armor_per_level |-> 470,
        base_mr |-> 3200, mr_per_level |-> 205,
        base_hp |-> 64800, hp_per_level |-> 10900])
  @@ ("malzahar" :> [base_armor |-> 1900, armor_per_level |-> 400,
        base_mr |-> 3000, mr_per_level |-> 50,
        base_hp |-> 58000, hp_per_level |-> 9500])
  @@ ("aphelios" :> [base_armor |-> 2100, armor_per_level |-> 420,
        base_mr |-> 3000, mr_per_level |-> 50,
        base_hp |-> 53000, hp_per_level |-> 9200])
  @@ ("_default" :> [base_armor |-> 2800, armor_per_level |-> 400,
        base_mr |-> 3200, mr_per_level |-> 150,
        base_hp |-> 58000, hp_per_level |-> 9500])

CHAMPION_COMBOS ==
     ("khazix" :> [combo_label |-> "E -> Q (isolated) -> W -> AA",
       spell_order |-> "E > Q > W > AA",
       damage_components |-> <<
         [label |-> "Q isolated", base |-> <<7000, 9500, 12000, 14500, 17000>>, ad_ratio |-> 115, type |-> "physical", rank_index |-> Some("q")],
         [label |-> "W spike", base |-> <<8500, 11500, 14500, 17500, 20500>>, ad_ratio |-> 100, type |-> "physical", rank_index |-> Some("w")],
         [label |-> "E leap", base |-> <<6500, 10000, 13500, 17000, 20500>>, ad_ratio |-> 20, type |-> "physical", rank_index |-> Some("e")],
         [label |-> "AA", base |-> <<0>>, ad_ratio |-> 100, type |-> "physical", rank_index |-> None]>>])
  @@ ("jarvaniv" :> [combo_label |-> "E+Q -> W -> AA -> R",
       spell_order |-> "E+Q > W > AA > R (to trap)",
       damage_components |-> <<
         [label |-> "Q knockup", base |-> <<8000, 13000, 18000, 23000, 28000>>, ad_ratio |-> 140, type |-> "physical", rank_index |-> Some("q")],
         [label |-> "R Cataclysm", base |-> <<15000, 25000, 35000>>, ad_ratio |-> 150, type |-> "physical", rank_index |-> Some("r")],
         [label |-> "AA", base |-> <<0>>, ad_ratio |-> 100, type |-> "physical", rank_index |-> None]>>])
  @@ ("briar" :> [combo_label |-> "Q -> W (frenzy) -> E -> W recast",
       spell_order |-> "Q > W > E (charged) > W recast",
       damage_components |-> <<
         [label |-> "Q stun", base |-> <<6000, 8500, 11000, 13500, 16000>>, ad_ratio |-> 80, type |-> "physical", rank_index |-> Some("q")],
         [label |-> "W autos x3", base |-> <<0>>, ad_ratio |-> 300, type |-> "physical", rank_index |-> None],
         [label |-> "E max charge", base |-> <<14000, 21500, 29000, 36500, 44000>>, ad_ratio |-> 240, type |-> "magic", rank_index |-> Some("e")]>>])
  @@ ("warwick" :> [combo_label |-> "Q -> R (suppress) -> autos",
       spell_order |-> "R > Q > autos",
       damage_components |-> <<
         [label |-> "Q bite", base |-> <<0>>, ad_ratio |-> 0, hp_ratio |-> 6, type |-> "magic", rank_index |-> Some("q")],
         [label |-> "R suppress", base |-> <<17500, 35000, 52500>>, ad_ratio |-> 250, type |-> "magic", rank_index |-> Some("r")],
         [label |-> "autos x3", base |-> <<0>>, ad_ratio |-> 300, type |-> "physical", rank_index |-> None]>>])
  @@ ("nocturne" :> [combo_label |-> "R -> AA -> Q -> E (fear) -> AA",
       spell_order |-> "R > AA > Q > E > AA",
       damage_components |-> <<
         [label |-> "Q", base |-> <<6500, 11000, 15500, 20000, 24500>>, ad_ratio |-> 85, type |-> "physical", rank_index |-> Some("q")],
         [label |-> "Passive proc", base |-> <<0>>, ad_ratio |-> 120, type |-> "physical", rank_index |-> None],
         [label |-> "AAs x2", base |-> <<0>>, ad_ratio |-> 200, type |-> "physical", rank_index |-> None]>>])
  @@ ("masteryi" :> [combo_label |-> "Q (4 strikes) -> autos -> E (true dmg)",
       spell_order |-> "Q > E > autos",
       damage_components |-> <<
         [label |-> "Q Alpha x4", base |-> <<2500, 6000, 9500, 13000, 16500>>, ad_ratio |-> 360, type |-> "physical", rank_index |-> Some("q")],
         [label |-> "E true dmg x3", base |-> <<0>>, ad_ratio |-> 30, type |-> "true", rank_index |-> None],
         [label |-> "AAs x3", base |-> <<0>>, ad_ratio |-> 300, type |-> "physical", rank_index |-> None]>>])
  @@ ("vi" :> [combo_label |-> "Q -> AA -> W procs -> R -> AA",
       spell_order |-> "Q > AA > R > AA",
       damage_components |-> <<
         [label |-> "Q max charge", base |-> <<5500, 8000, 10500, 13000, 15500>>, ad_ratio |-> 170, type |-> "physical", rank_index |-> Some("q")],
         [label |-> "R", base |-> <<15000, 32500, 50000>>, ad_ratio |-> 140, type |-> "physical", rank_index |-> Some("r")],
         [label |-> "AAs+W x2", base |-> <<0>>, ad_ratio |-> 200, type |-> "physical", rank_index |-> None]>>])
  @@ ("_default" :> [combo_label |-> "Full combo",
       spell_order |-> "Spell1 > Spell2 > AA",
       damage_components |-> <<
         [label |-> "Estimated combo", base |-> <<30000>>, ad_ratio |-> 250, type |-> "physical", rank_index |-> None]>>])

ITEM_STATS ==
     ("thornmail" :> [armor |-> 6000, hp |-> 35000])
  @@ ("randuins_omen" :> [armor |-> 8000, hp |-> 40000])
  @@ ("frozen_heart" :> [armor |-> 9000, hp |-> 0])
  @@ ("iceborn_gauntlet" :> [armor |-> 5000, hp |-> 30000])
  @@ ("jak_sho" :> [armor |-> 3000, hp |-> 30000, mr |-> 3000])
  @@ ("kaenic_rookern" :> [mr |-> 8000, hp |-> 35000])
  @@ ("spirit_visage" :> [mr |-> 6000, hp |-> 45000])
  @@ ("force_of_nature" :> [mr |-> 7000, hp |-> 35000])
  @@ ("warmogs_armor" :> [hp |-> 100000])
  @@ ("heartsteel" :> [hp |-> 80000, armor |-> 0])
  @@ ("gargoyle_stoneplate" :> [armor |-> 6000, mr |-> 6000, hp |-> 15000, active_shield |-> 40])
  @@ ("sterak_gage" :> [hp |-> 40000, passive_shield |-> Num(20)])
  @@ ("immortal_shieldbow" :> [hp |-> 25000, passive_shield |-> Num(27500)])
  @@ ("guardian_angel" :> [armor |-> 4000, revive |-> TRUE])
  @@ ("deaths_dance" :> [armor |-> 4500, hp |-> 0, damage_delay |-> 30])
  @@ ("black_cleaver" :> [hp |-> 40000, armor |-> 0])
  @@ ("sundered_sky" :> [hp |-> 35000, armor |-> 0])
  @@ ("titanic_hydra" :> [hp |-> 60000, armor |-> 0])
  @@ ("maw_of_malmortius" :> [mr |-> 5000, passive_shield |-> Num(20000)])
  @@ ("edge_of_night" :> [hp |-> 25000, armor |-> 0, passive_shield |-> Str("spell")])
  @@ ("hollow_radiance" :> [hp |-> 35000, mr |-> 5000])
  @@ ("abyssal_mask" :> [hp |-> 50000, mr |-> 0])
  @@ ("blade_of_the_ruined_king" :> [hp |-> 0])
  @@ ("trinity_force" :> [hp |-> 20000])
  @@ ("stridebreaker" :> [hp |-> 30000])
  @@ ("ravenous_hydra" :> [hp |-> 0])
  @@ ("profane_hydra" :> [hp |-> 0])
  @@ ("serpents_fang" :> [hp |-> 0])
  @@ ("lord_dominiks_regards" :> [hp |-> 0])
  @@ ("mortal_reminder" :> [hp |-> 0])
  @@ ("the_collector" :> [hp |-> 0])
  @@ ("infinity_edge" :> [hp |-> 0])
  @@ ("kraken_slayer" :> [hp |-> 0])

ACTIVE_DAMAGE_ITEMS ==
     ("galeforce" :> [damage |-> 15000, type |-> "physical"])
  @@ ("hextech_rocketbelt" :> [damage |-> 12500, type |-> "magic"])
  @@ ("youmuus_ghostblade" :> [damage |-> 0, type |-> "none"])
  @@ ("the_collector" :> [damage |-> 0, type |-> "execute"])

SUMMONER_ADJUSTMENTS ==
     ("SummonerBarrier" :> [hp_modifier |-> 125, label |-> "Barrier"])
  @@ ("SummonerHeal" :> [hp_modifier |-> 118, label |-> "Heal"])
  @@ ("SummonerShield" :> [hp_modifier |-> 115, label |-> "Ignite(no adj)"])
  @@ ("SummonerExhaust" :> [my_dmg_modifier |-> 60, label |-> "Exhaust"])

\* ------------------------------------------------------- name normalisation
\* The three normalisers work on characters (lower(), replace()); strings are
\* atoms here, so each is tabulated on the display names the model draws,
\* with the value the program computes for that name.

\* display names of held items
ItemNames ==
  {"Eclipse", "Sterak's Gage", "Death's Dance", "Gargoyle Stoneplate",
   "Immortal Shieldbow", "Guardian Angel", "Warmog's Armor", "Edge of Night",
   "Maw of Malmortius", "Thornmail", "Doran's Blade", "Galeforce",
   "Hextech Rocketbelt", "Youmuu's Ghostblade", "The Collector", "",
   "Sterak Gage"}

\* display names of champions
ChampionNames ==
  {"Kha'Zix", "Jarvan IV", "Master Yi", "Briar", "Warwick", "Nocturne", "Vi",
   "Darius", "Teemo", "Unknown", "_default"}

\* name.lower().replace("'", "").replace(" ", "_").replace("-", "_")
_normalize_item_key(name) ==
  CASE name = "Eclipse"             -> "eclipse"
    [] name = "Sterak's Gage"       -> "steraks_gage"
    [] name = "Death's Dance"       -> "deaths_dance"
    [] name = "Gargoyle Stoneplate" -> "gargoyle_stoneplate"
    [] name = "Immortal Shieldbow"  -> "immortal_shieldbow"
    [] name = "Guardian Angel"      -> "guardian_angel"
    [] name = "Warmog's Armor"      -> "warmogs_armor"
    [] name = "Edge of Night"       -> "edge_of_night"
    [] name = "Maw of Malmortius"   -> "maw_of_malmortius"
    [] name = "Thornmail"           -> "thornmail"
    [] name = "Doran's Blade"       -> "dorans_blade"
    [] name = "Galeforce"           -> "galeforce"
    [] name = "Hextech Rocketbelt"  -> "hextech_rocketbelt"
    [] name = "Youmuu's Ghostblade" -> "youmuus_ghostblade"
    [] name = "The Collector"       -> "the_collector"
    [] name = ""                    -> ""
    [] name = "Sterak Gage"         -> "sterak_gage"

\* get_active_damage's key: item_name.lower().replace("'", "").replace(" ", "_")
\* (no name drawn holds a "-", the one character the two normalisers treat
\* differently)
ActiveItemKey(item_name) == _normalize_item_key(item_name)

\* name.lower().replace("'", "").replace(" ", "").replace(".", "")
ChampionKey(champion_name) ==
  CASE champion_name = "Kha'Zix"   -> "khazix"
    [] champion_name = "Jarvan IV" -> "jarvaniv"
    [] champion_name = "Master Yi" -> "masteryi"
    [] champion_name = "Briar"     -> "briar"
    [] champion_name = "Warwick"   -> "warwick"
    [] champion_name = "Nocturne"  -> "nocturne"
    [] champion_name = "Vi"        -> "vi"
    [] champion_name = "Darius"    -> "darius"
    [] champion_name = "Teemo"     -> "teemo"
    [] champion_name = "Unknown"   -> "unknown"
    [] champion_name = "_default"  -> "_default"
    [] champion_name \in DOMAIN CHAMPION_STATS -> champion_name

\* ------------------------------------------------------- data/champion_stats.py

\* get_champion_stats with another fallback entry: a variant C11 must tell
\* from get_champion_stats
get_champion_stats_fallback_darius(champion_name) ==
  Get(CHAMPION_STATS, ChampionKey(champion_name), CHAMPION_STATS["darius"])

get_champion_stats(champion_name) ==
  Get(CHAMPION_STATS, ChampionKey(champion_name), CHAMPION_STATS["_default"])

\* calculate_stats_at_level without the clamp of the level: a variant C12
\* must tell from calculate_stats_at_level
calculate_stats_at_level_unclamped(champion_name, level) ==
  LET stats == get_champion_stats(champion_name)
  IN  [armor  |-> stats.base_armor + stats.armor_per_level * (level - 1),
       mr     |-> stats.base_mr    + stats.mr_per_level    * (level - 1),
       max_hp |-> stats.base_hp    + stats.hp_per_level    * (level - 1)]

calculate_stats_at_level(champion_name, level) ==
  LET stats == get_champion_stats(champion_name)
      lvl   == Max(1, Min(18, level))
  IN  [armor  |-> stats.base_armor + stats.armor_per_level * (lvl - 1),
       mr     |-> stats.base_mr    + stats.mr_per_level    * (lvl - 1),
       max_hp |-> stats.base_hp    + stats.hp_per_level    * (lvl - 1)]

\* ------------------------------------------------------- data/item_stats.py

get_active_damage(item_name) ==
  Get(ACTIVE_DAMAGE_ITEMS, ActiveItemKey(item_name), <<>>)

\* ------------------------------------------------------- data/champion_combos.py

get_combo(champion_name) ==
  Get(CHAMPION_COMBOS, ChampionKey(champion_name), CHAMPION_COMBOS["_default"])

\* what a function call gives: a value returned, or an exception raised
Returned(v) == [exc |-> "", value |-> v]

Raised(e) == [exc |-> e, value |-> 0]

\* list[i] with Python's subscript: 0-based, a negative i counts from the end,
\* anything else raises IndexError
PyGetItem(list, i) ==
  IF 0 <= i /\ i < Len(list) THEN Returned(list[i + 1])
  ELSE IF -Len(list) <= i /\ i < 0 THEN Returned(list[Len(list) + i + 1])
  ELSE Raised("IndexError")

\* the subscript get_base_damage_at_rank applies to component["base"]
RankSubscript(component, spell_ranks) ==
  LET idx_key == Get(component, "rank_index", None)
  IN  IF idx_key = None THEN 0
      ELSE LET rank == Get(spell_ranks, idx_key[1], 1)
           IN  Min(rank - 1, Len(component.base) - 1)

get_base_damage_at_rank(component, spell_ranks) ==
  LET idx_key == Get(component, "rank_index", None)
  IN  IF idx_key = None
      THEN IF component.base # <<>> THEN Returned(component.base[1])
           ELSE Returned(0)
      ELSE PyGetItem(component.base, RankSubscript(component, spell_ranks))

\* ------------------------------------------------------- modules/kill_calculator.py

THRESHOLD_GO == 8000

THRESHOLD_RISKY == 6000

MIN_MY_HP_TO_ENGAGE == 3500

\* KillCalcResult(enemy_champion=..., my_champion=...): every other field
\* at its dataclass default
KillCalcResult(enemy_champion, my_champion) ==
  [enemy_champion     |-> enemy_champion,
   my_champion        |-> my_champion,
   raw_damage         |-> 0,
   real_damage        |-> 0,
   active_item_damage |-> 0,
   enemy_current_hp   |-> 0,
   enemy_max_hp       |-> 0,
   enemy_hp_percent   |-> Unit,
   enemy_effective_hp |-> 0,
   enemy_armor_used   |-> 0,
   enemy_mr_used      |-> 0,
   kill_ratio         |-> 0,
   confidence         |-> 0,
   verdict            |-> "NO GO",
   combo_label        |-> "",
   spell_order        |-> "",
   flags              |-> <<>>,
   summoner_warnings  |-> <<>>,
   item_flags         |-> <<>>,
   paused             |-> FALSE,
   pause_reason       |-> ""]

\* _calc_effective_armor without the floor at zero: a variant C21 must tell
\* from _calc_effective_armor
_calc_effective_armor_unfloored(base_armor, my_state) ==
  Scale(base_armor, Unit - Get(my_state, "armor_pen_pct", 0), Unit)
    - (Get(my_state, "lethality", 0) * (108 + 4 * Get(my_state, "level", 1))) \div 180

\* lethality * (0.6 + 0.4 * level / 18) = lethality * (108 + 4 * level) / 180
_calc_effective_armor(base_armor, my_state) ==
  LET lethality == Get(my_state, "lethality", 0)
      pen_pct   == Get(my_state, "armor_pen_pct", 0)
      level     == Get(my_state, "level", 1)
      flat_pen  == (lethality * (108 + 4 * level)) \div 180
      armor_after_pct  == Scale(base_armor, Unit - pen_pct, Unit)
      armor_after_flat == Max(0, armor_after_pct - flat_pen)
  IN  armor_after_flat

\* the multiplier as the exact quotient n / d
_dmg_reduction(effective_armor) ==
  IF effective_armor >= 0
  THEN [n |-> 100 * Centi, d |-> 100 * Centi + effective_armor]
  ELSE \* 2.0 - 100.0 / (100.0 - effective_armor), over the common denominator
       [n |-> 2 * (100 * Centi - effective_armor) - 100 * Centi,
        d |-> 100 * Centi - effective_armor]

_mr_reduction(effective_mr) ==
  [n |-> 100 * Centi, d |-> 100 * Centi + Max(0, effective_mr)]

\* x * multiplier, for x >= 0
Times(x, multiplier) == Scale(x, multiplier.n, multiplier.d)

\* Python's truth value of an optional number: None and 0 are false
Truthy(opt) == opt # None /\ opt[1] # 0

\* the loop over the held items: the sums of stats.get("armor" | "mr" | "hp", 0)
RECURSIVE ItemStatSum(_, _)
ItemStatSum(items, stat) ==
  IF items = <<>> THEN 0
  ELSE LET stats == Get(ITEM_STATS, _normalize_item_key(Head(items)), <<>>)
       IN  Get(stats, stat, 0) + ItemStatSum(Tail(items), stat)

\* the loop over the held items: item_shields, in list order
RECURSIVE ItemShields(_)
ItemShields(items) ==
  IF items = <<>> THEN <<>>
  ELSE LET item_name == Head(items)
           stats     == Get(ITEM_STATS, _normalize_item_key(item_name), <<>>)
           passive   == IF "passive_shield" \in DOMAIN stats
                          /\ stats.passive_shield # Num(0)
                          /\ stats.passive_shield # Str("")
                        THEN <<[item |-> item_name, shield |-> stats.passive_shield]>>
                        ELSE <<>>
           active    == IF Get(stats, "active_shield", 0) # 0
                        THEN <<[item   |-> item_name,
                                shield |-> Str("+" \o ToString(stats.active_shield)
                                                   \o "% maxHP")]>>
                        ELSE <<>>
       IN  passive \o active \o ItemShields(Tail(items))

\* HpFraction without the clamp of values above 1.0: a variant C9 must tell
\* from HpFraction
HpFractionNoUpperClamp(enemy, hp_percent_override) ==
  LET hp_pct == IF hp_percent_override # None THEN hp_percent_override
                ELSE Get(enemy, "hp_percent", Some(Unit))
  IN  IF ~Truthy(hp_pct) \/ hp_pct[1] <= 0 THEN Unit ELSE hp_pct[1]

\* hp_pct: the override unless it is None, else the snapshot's value, then
\* the clamp of anything false, <= 0 or > 1 to 1.0
HpFraction(enemy, hp_percent_override) ==
  LET hp_pct == IF hp_percent_override # None THEN hp_percent_override
                ELSE Get(enemy, "hp_percent", Some(Unit))
  IN  IF ~Truthy(hp_pct) \/ hp_pct[1] <= 0 \/ hp_pct[1] > Unit
      THEN Unit ELSE hp_pct[1]

\* max_hp before the item loop: the table value, or hp_max_real when it is
\* true
BaseMaxHp(enemy, base) ==
  LET hp_max_real == Get(enemy, "hp_max_real", None)
  IN  IF Truthy(hp_max_real) THEN hp_max_real[1] ELSE base.max_hp

_build_enemy_stats(enemy, hp_percent_override) ==
  LET champ  == Get(enemy, "champion", "_default")
      level  == Get(enemy, "level", 1)
      items  == Get(enemy, "items", <<>>)
      base   == calculate_stats_at_level(champ, level)
      max_hp0 == BaseMaxHp(enemy, base)
      armor  == base.armor + ItemStatSum(items, "armor")
      mr     == base.mr    + ItemStatSum(items, "mr")
      max_hp == max_hp0    + ItemStatSum(items, "hp")
      item_revive ==
        \E i \in DOMAIN items :
           Get(Get(ITEM_STATS, _normalize_item_key(items[i]), <<>>), "revive", FALSE)
      death_dance_flag ==
        \E i \in DOMAIN items : _normalize_item_key(items[i]) = "deaths_dance"
      hp_pct  == HpFraction(enemy, hp_percent_override)
      current_hp == Scale(max_hp, hp_pct, Unit)
  IN  [armor            |-> armor,
       mr               |-> mr,
       max_hp           |-> max_hp,
       current_hp       |-> current_hp,
       hp_percent       |-> hp_pct,
       item_shields     |-> ItemShields(items),
       item_revive      |-> item_revive,
       death_dance_flag |-> death_dance_flag]

\* one component's raw damage, or the exception its rank lookup raises
ComponentRaw(comp, total_ad, ap, max_hp_enemy, spell_ranks) ==
  LET base == get_base_damage_at_rank(comp, spell_ranks)
      ad_r == Get(comp, "ad_ratio", 0)
      ap_r == Get(comp, "ap_ratio", 0)
      hp_r == Get(comp, "hp_ratio", 0)
  IN  IF base.exc # "" THEN base
      ELSE Returned(base.value + Scale(total_ad, ad_r, Centi) + Scale(ap, ap_r, Centi)
                      + Scale(max_hp_enemy, hp_r, Centi))

\* the loop over combo["damage_components"], from component i on
RECURSIVE ComboLoop(_, _, _, _, _, _, _)
ComboLoop(comps, i, total_ad, ap, max_hp_enemy, spell_ranks, acc) ==
  IF i > Len(comps) THEN Returned(acc)
  ELSE LET comp == comps[i]
           raw  == ComponentRaw(comp, total_ad, ap, max_hp_enemy, spell_ranks)
       IN  IF raw.exc # "" THEN raw
           ELSE ComboLoop(comps, i + 1, total_ad, ap, max_hp_enemy, spell_ranks,
                  [phys_dmg  |-> acc.phys_dmg
                                   + (IF comp.type \in {"physical", "true"}
                                      THEN raw.value ELSE 0),
                   magic_dmg |-> acc.magic_dmg
                                   + (IF comp.type \in {"physical", "true"}
                                      THEN 0 ELSE raw.value),
                   breakdown |-> Append(acc.breakdown,
                                   [label  |-> comp.label,
                                    damage |-> RoundTo(raw.value, 10),
                                    type   |-> comp.type])])

_calculate_combo_damage(my_state, enemy_stats, spell_ranks) ==
  LET champ == Get(my_state, "champion", "_default")
      combo == get_combo(champ)
      total_ad == Get(my_state, "total_ad", 50 * Centi)
      ap       == Get(my_state, "ap", 0)
      max_hp_enemy == Get(enemy_stats, "max_hp", 1000 * Centi)
  IN  ComboLoop(combo.damage_components, 1, total_ad, ap, max_hp_enemy, spell_ranks,
                [phys_dmg |-> 0, magic_dmg |-> 0, breakdown |-> <<>>])

\* the loop over my_state["items"]: active_dmg and active_items_used
RECURSIVE ActiveItemsLoop(_, _, _)
ActiveItemsLoop(items, armor_mult, acc) ==
  IF items = <<>> THEN acc
  ELSE LET item_name == Head(items)
           act == get_active_damage(item_name)
           d   == IF Get(act, "type", "") = "physical"
                  THEN Times(act.damage, armor_mult) ELSE act.damage
       IN  IF Get(act, "damage", 0) > 0
           THEN ActiveItemsLoop(Tail(items), armor_mult,
                  [active_dmg |-> acc.active_dmg + d,
                   active_items_used |->
                     Append(acc.active_items_used,
                            item_name \o " (+" \o Fmt0f(d) \o ")")])
           ELSE ActiveItemsLoop(Tail(items), armor_mult, acc)

\* the loop over enemy_stats["item_shields"]
RECURSIVE ShieldLoop(_, _)
ShieldLoop(item_shields, acc) ==
  IF item_shields = <<>> THEN acc
  ELSE LET item_name  == Head(item_shields).item
           shield_val == Head(item_shields).shield
           numeric    == "num" \in DOMAIN shield_val
       IN  ShieldLoop(Tail(item_shields),
             [effective_hp |-> acc.effective_hp
                                 + (IF numeric THEN shield_val.num ELSE 0),
              item_flags   |-> Append(acc.item_flags,
                                 IF numeric
                                 THEN "! " \o item_name \o ": +"
                                        \o Fmt0f(shield_val.num) \o " shield"
                                 ELSE "! " \o item_name \o ": "
                                        \o shield_val.str \o " shield"),
              confidence_penalty |-> acc.confidence_penalty + 800])

\* the loop over enemy["summoners"]
RECURSIVE SummonerLoop(_, _)
SummonerLoop(enemy_summoners, acc) ==
  IF enemy_summoners = <<>> THEN acc
  ELSE LET adj   == Get(SUMMONER_ADJUSTMENTS, Head(enemy_summoners), <<>>)
           hasHp == "hp_modifier" \in DOMAIN adj
           hasDm == "my_dmg_modifier" \in DOMAIN adj
           w1    == IF hasHp
                    THEN <<"! " \o adj.label \o ": x" \o FmtFloat(adj.hp_modifier)
                              \o " effective HP">>
                    ELSE <<>>
           w2    == IF hasDm
                    THEN <<"! " \o adj.label \o ": your dmg x"
                              \o FmtFloat(adj.my_dmg_modifier)>>
                    ELSE <<>>
       IN  SummonerLoop(Tail(enemy_summoners),
             [effective_hp |-> IF hasHp
                               THEN Scale(acc.effective_hp, adj.hp_modifier, Centi)
                               ELSE acc.effective_hp,
              dmg_modifier |-> IF hasDm
                               THEN Scale(acc.dmg_modifier, adj.my_dmg_modifier, Centi)
                               ELSE acc.dmg_modifier,
              summoner_warnings  |-> acc.summoner_warnings \o w1 \o w2,
              confidence_penalty |-> acc.confidence_penalty
                                       + (IF hasHp THEN 800 ELSE 0)
                                       + (IF hasDm THEN 1200 ELSE 0)])

ITEM_CD_FLAGS ==
     ("eclipse"             :> "Eclipse proc (6s CD) - unknown state")
  @@ ("immortal_shieldbow"  :> "Shieldbow shield (90s CD) - unknown state")
  @@ ("steraks_gage"        :> "Sterak's shield (60s CD) - unknown state")
  @@ ("gargoyle_stoneplate" :> "Gargoyle active (90s CD) - unknown state")

\* the loop over enemy["items"] that flags unknown cooldown states
RECURSIVE ItemCdLoop(_, _)
ItemCdLoop(items, acc) ==
  IF items = <<>> THEN acc
  ELSE LET key == _normalize_item_key(Head(items))
       IN  IF key \in DOMAIN ITEM_CD_FLAGS
           THEN ItemCdLoop(Tail(items),
                  [item_flags |-> Append(acc.item_flags, "! " \o ITEM_CD_FLAGS[key]),
                   confidence_penalty |-> acc.confidence_penalty + 500])
           ELSE ItemCdLoop(Tail(items), acc)

\* BaseConf that keeps the fraction of kill_ratio instead of capping it: a
\* variant C15 must tell from BaseConf
BaseConfWrapped(kill_ratio) == kill_ratio % Unit

\* BaseConf with the cap at 1.0: a variant C2 must tell from BaseConf
BaseConfCappedAtOne(kill_ratio) == Min(Unit, kill_ratio)

\* BaseConf without any cap: a variant C26 must tell from BaseConf
BaseConfUncapped(kill_ratio) == kill_ratio

\* base_conf = min(0.97, kill_ratio)
BaseConf(kill_ratio) == Min(9700, kill_ratio)

\* Uncertainty without its cap: a variant C3 must tell from Uncertainty
UncertaintyUncapped(confidence_penalty) == confidence_penalty

\* uncertainty = min(0.40, confidence_penalty)
Uncertainty(confidence_penalty) == Min(4000, confidence_penalty)

\* final_conf = max(0.0, base_conf - uncertainty)
FinalConf(base_conf, uncertainty) == Max(0, base_conf - uncertainty)

\* the verdict chain on final_conf
Verdict(final_conf) ==
  IF final_conf >= THRESHOLD_GO THEN "GO"
  ELSE IF final_conf >= THRESHOLD_RISKY THEN "RISKY"
  ELSE "NO GO"

\* The locals of calculate_kill_chance are kept in one record, v, that the
\* sections of its body update in the order of the code.

\* the resistances after penetration, and the locals at their initial values
ResistanceLocals(my_state, enemy_stats, raw) ==
  [enemy_stats        |-> enemy_stats,
   phys_raw           |-> raw.phys_dmg,
   magic_raw          |-> raw.magic_dmg,
   eff_armor          |-> _calc_effective_armor(enemy_stats.armor, my_state),
   eff_mr             |-> Max(0, enemy_stats.mr - Get(my_state, "magic_pen_flat", 0)),
   total_dealt        |-> 0,
   active_dmg         |-> 0,
   active_items_used  |-> <<>>,
   effective_hp       |-> enemy_stats.current_hp,
   effective_hp_items |-> enemy_stats.current_hp,
   confidence_penalty |-> 0,
   item_flags         |-> <<>>,
   summoner_warnings  |-> <<>>,
   flags              |-> <<>>,
   dmg_modifier       |-> Unit,
   adjusted_dealt     |-> 0,
   kill_ratio         |-> 0,
   base_conf          |-> 0,
   uncertainty        |-> 0,
   final_conf         |-> 0,
   verdict            |-> "NO GO"]

\* total_dealt with the magic damage reduced by the armor as well
ComboDealtByArmorOnly(v) ==
  [v EXCEPT !.total_dealt = Times(v.phys_raw + v.magic_raw, _dmg_reduction(v.eff_armor))]

\* total_dealt = phys_dealt + magic_dealt
ComboDealt(v) ==
  [v EXCEPT !.total_dealt = Times(v.phys_raw, _dmg_reduction(v.eff_armor))
                              + Times(v.magic_raw, _mr_reduction(v.eff_mr))]

\* the active damage items, then total_dealt += active_dmg
ActiveItemDealt(v, active) ==
  [v EXCEPT !.active_dmg        = active.active_dmg,
            !.active_items_used = active.active_items_used,
            !.total_dealt       = v.total_dealt + active.active_dmg]

\* the item shield flags
ItemShieldFlags(v, shields) ==
  [v EXCEPT !.effective_hp       = shields.effective_hp,
            !.item_flags         = shields.item_flags,
            !.confidence_penalty = shields.confidence_penalty]

\* if enemy_stats["death_dance_flag"]: ...
DeathDanceFlag(v) ==
  IF v.enemy_stats.death_dance_flag
  THEN [v EXCEPT !.effective_hp       = Scale(v.effective_hp, 115, Centi),
                 !.item_flags         = Append(v.item_flags,
                                          "! Death's Dance: 30% dmg delayed"),
                 !.confidence_penalty = v.confidence_penalty + 500]
  ELSE v

\* ReviveFlag that also counts a second life as effective HP: a variant C13
\* must tell from ReviveFlag
ReviveFlagAddsHp(v) ==
  IF v.enemy_stats.item_revive
  THEN [v EXCEPT !.effective_hp       = Scale(v.effective_hp, 150, Centi),
                 !.item_flags         = Append(v.item_flags,
                                          "(red) Guardian Angel: revive possible"),
                 !.confidence_penalty = v.confidence_penalty + 2000]
  ELSE v

\* if enemy_stats["item_revive"]: ...
ReviveFlag(v) ==
  IF v.enemy_stats.item_revive
  THEN [v EXCEPT !.item_flags         = Append(v.item_flags,
                                          "(red) Guardian Angel: revive possible"),
                 !.confidence_penalty = v.confidence_penalty + 2000]
  ELSE v

\* result.enemy_effective_hp = round(effective_hp, 1), read before the
\* summoner spells change effective_hp
RecordEffectiveHp(v) == [v EXCEPT !.effective_hp_items = v.effective_hp]

\* the summoner spell flags, then adjusted_dealt = total_dealt * dmg_modifier
SummonerFlags(v, summ) ==
  [v EXCEPT !.effective_hp       = summ.effective_hp,
            !.dmg_modifier       = summ.dmg_modifier,
            !.summoner_warnings  = summ.summoner_warnings,
            !.confidence_penalty = summ.confidence_penalty,
            !.adjusted_dealt     = Scale(v.total_dealt, summ.dmg_modifier, Unit)]

\* the flags of items whose cooldown state is unknown
ItemCdFlags(v, cd) ==
  [v EXCEPT !.item_flags         = cd.item_flags,
            !.confidence_penalty = cd.confidence_penalty]

\* PhaseRushFlag that also charges the penalty of an unknown state: a variant
\* C24 must tell from PhaseRushFlag
PhaseRushFlagPenalised(allies_nearby, v) ==
  IF allies_nearby = 0
  THEN [v EXCEPT !.flags = Append(v.flags,
                             "Solo engage - watch for Phase Rush / Flash escape"),
                 !.confidence_penalty = v.confidence_penalty + 500]
  ELSE v

\* if allies_nearby == 0: result.flags.append(...)
PhaseRushFlag(allies_nearby, v) ==
  IF allies_nearby = 0
  THEN [v EXCEPT !.flags = Append(v.flags,
                             "Solo engage - watch for Phase Rush / Flash escape")]
  ELSE v

\* kill_ratio = adjusted_dealt / max(effective_hp, 1.0)
KillRatio(v) ==
  [v EXCEPT !.kill_ratio = Ratio(v.adjusted_dealt, Max(v.effective_hp, Centi))]

\* base_conf, uncertainty and final_conf
Confidence(v) ==
  [v EXCEPT !.base_conf   = BaseConf(v.kill_ratio),
            !.uncertainty = Uncertainty(v.confidence_penalty),
            !.final_conf  = FinalConf(BaseConf(v.kill_ratio),
                                      Uncertainty(v.confidence_penalty))]

\* result.verdict
SetVerdict(v) == [v EXCEPT !.verdict = Verdict(v.final_conf)]

\* The damage sections of the body, in the order of the code.
DamageLocals(my_state, v) ==
  ActiveItemDealt(v,
    ActiveItemsLoop(Get(my_state, "items", <<>>), _dmg_reduction(v.eff_armor),
                    [active_dmg |-> 0, active_items_used |-> <<>>]))

\* The effective-HP sections of the body, in the order of the code.
EffectiveHpLocals(v) ==
  RecordEffectiveHp(ReviveFlag(DeathDanceFlag(
    ItemShieldFlags(v,
      ShieldLoop(v.enemy_stats.item_shields,
                 [effective_hp       |-> v.effective_hp,
                  item_flags         |-> v.item_flags,
                  confidence_penalty |-> v.confidence_penalty])))))

\* The summoner spell section of the body.
SummonerLocals(enemy, v) ==
  SummonerFlags(v,
    SummonerLoop(Get(enemy, "summoners", <<>>),
                 [effective_hp       |-> v.effective_hp,
                  dmg_modifier       |-> v.dmg_modifier,
                  summoner_warnings  |-> v.summoner_warnings,
                  confidence_penalty |-> v.confidence_penalty]))

\* The cooldown flag section of the body.
ItemCdLocals(enemy, v) ==
  ItemCdFlags(v,
    ItemCdLoop(Get(enemy, "items", <<>>),
               [item_flags         |-> v.item_flags,
                confidence_penalty |-> v.confidence_penalty]))

\* The body of calculate_kill_chance after the combo damage is computed: every
\* local variable it computes, given the enemy stats and the raw combo damage.
EvaluationLocals(my_state, enemy, enemy_stats, allies_nearby, raw) ==
  SetVerdict(Confidence(KillRatio(PhaseRushFlag(allies_nearby,
    ItemCdLocals(enemy, SummonerLocals(enemy, EffectiveHpLocals(
      DamageLocals(my_state,
        ComboDealt(ResistanceLocals(my_state, enemy_stats, raw))))))))))

\* ", ".join(strs)
RECURSIVE JoinComma(_)
JoinComma(strs) ==
  IF strs = <<>> THEN ""
  ELSE IF Len(strs) = 1 THEN strs[1]
  ELSE strs[1] \o ", " \o JoinComma(Tail(strs))

\* my_hp_percent or my_state.get("hp_percent", 1.0)
AttackerHp(my_state, my_hp_percent) ==
  IF Truthy(my_hp_percent) THEN my_hp_percent[1]
  ELSE Get(my_state, "hp_percent", Unit)

\* the auto-pause checks, in the order of the code: the pause reason, or
\* None when no check fires
AutoPause(my_hp, enemy, game_time) ==
  IF game_time > 0 /\ game_time < 10 * 10
    THEN Some("Pre-game (< 10s)")
  ELSE IF my_hp < MIN_MY_HP_TO_ENGAGE
    THEN Some("Your HP too low (" \o FmtPct(my_hp) \o ")")
  ELSE IF Get(enemy, "is_dead", FALSE)
    THEN Some("Enemy is dead")
  ELSE IF game_time > 45 * 60 * 10
    THEN Some("Late game (>45min) - calc unreliable")
  ELSE None

\* PausedResult that also writes the verdict: a variant C6 must tell from
\* PausedResult
PausedResultWithVerdict(result, reason) ==
  [result EXCEPT !.paused = TRUE, !.pause_reason = reason, !.verdict = "PAUSED"]

\* result.paused = True; result.pause_reason = ...; return result
PausedResult(result, reason) ==
  [result EXCEPT !.paused = TRUE, !.pause_reason = reason]

\* ExtendLabel that appends to the label of the table row itself: a variant
\* C19 must tell from ExtendLabel
ExtendLabelInPlace(combo, active_items_used) ==
  [combo |-> [combo EXCEPT !.combo_label =
                IF active_items_used # <<>>
                THEN combo.combo_label \o " + " \o JoinComma(active_items_used)
                ELSE combo.combo_label],
   label |-> IF active_items_used # <<>>
             THEN combo.combo_label \o " + " \o JoinComma(active_items_used)
             ELSE combo.combo_label]

\* result.combo_label = combo["combo_label"], then `+=` when active items were
\* used: a str is immutable, so `+=` binds a new str to the attribute of the
\* result and the row of the table (combo) keeps its label
ExtendLabel(combo, active_items_used) ==
  [combo |-> combo,
   label |-> IF active_items_used # <<>>
             THEN combo.combo_label \o " + " \o JoinComma(active_items_used)
             ELSE combo.combo_label]

\* the result of a run that was not paused, from the locals v
EvaluatedResult(result, v, combo) ==
  [result EXCEPT
     !.enemy_armor_used   = v.enemy_stats.armor,
     !.enemy_mr_used      = v.enemy_stats.mr,
     !.enemy_max_hp       = v.enemy_stats.max_hp,
     !.enemy_current_hp   = v.enemy_stats.current_hp,
     !.enemy_hp_percent   = v.enemy_stats.hp_percent,
     !.raw_damage         = RoundTo(v.phys_raw + v.magic_raw, 10),
     !.real_damage        = RoundTo(v.total_dealt, 10),
     !.active_item_damage = RoundTo(v.active_dmg, 10),
     !.item_flags         = v.item_flags,
     !.enemy_effective_hp = RoundTo(v.effective_hp_items, 10),
     !.summoner_warnings  = v.summoner_warnings,
     !.flags              = v.flags,
     !.kill_ratio         = RoundTo(v.kill_ratio, 10),
     !.confidence         = RoundTo(v.final_conf, 10),
     !.verdict            = v.verdict,
     !.combo_label        = ExtendLabel(combo, v.active_items_used).label,
     !.spell_order        = combo.spell_order]

\* the body from the combo damage on: the exception the combo raised, or the
\* result
AfterCombo(my_state, enemy, enemy_stats, allies_nearby, result, raw) ==
  IF raw.exc # "" THEN raw
  ELSE Returned(EvaluatedResult(result,
         EvaluationLocals(my_state, enemy, enemy_stats, allies_nearby, raw.value),
         get_combo(Get(my_state, "champion", "_default"))))

\* the body after the auto-pause checks
Evaluate(my_state, enemy, enemy_stats, allies_nearby, result) ==
  AfterCombo(my_state, enemy, enemy_stats, allies_nearby, result,
    _calculate_combo_damage(my_state, enemy_stats,
      Get(my_state, "spell_ranks", [k \in {"q", "w", "e", "r"} |-> 1])))

\* Returned(KillCalcResult) or Raised(exception)
calculate_kill_chance(my_state, enemy, enemy_hp_percent, my_hp_percent, allies_nearby, game_time) ==
  IF AutoPause(AttackerHp(my_state, my_hp_percent), enemy, game_time) # None
  THEN Returned(PausedResult(
         KillCalcResult(Get(enemy, "champion", "Unknown"),
                        Get(my_state, "champion", "Unknown")),
         AutoPause(AttackerHp(my_state, my_hp_percent), enemy, game_time)[1]))
  ELSE Evaluate(my_state, enemy, _build_enemy_stats(enemy, enemy_hp_percent),
                allies_nearby,
                KillCalcResult(Get(enemy, "champion", "Unknown"),
                               Get(my_state, "champion", "Unknown")))
\* format_result past its first return: the lines that "\n".join() joins
FormatLines(r) ==
    LET verdict_icon == CASE r.verdict = "GO"    -> "(green)"
                          [] r.verdict = "RISKY" -> "(yellow)"
                          [] r.verdict = "NO GO" -> "(red)"
                          [] OTHER               -> "(white)"
        header == <<verdict_icon \o " " \o r.verdict \o "  |  "
                      \o "Confidence: " \o FmtPct(r.confidence) \o "  |  "
                      \o "Kill ratio: " \o FmtPct(r.kill_ratio),
                    "Target: " \o r.enemy_champion \o "  "
                      \o "HP: " \o FmtPct(r.enemy_hp_percent)
                      \o " (" \o Fmt0f(r.enemy_current_hp) \o " / "
                      \o Fmt0f(r.enemy_max_hp) \o ")",
                    "Effective HP (with shields): " \o Fmt0f(r.enemy_effective_hp),
                    "">>
        damage == <<"Your burst:   " \o Fmt0f(r.real_damage) \o " dmg  "
                      \o "(raw " \o Fmt0f(r.raw_damage) \o "  |  after resists "
                      \o Fmt0f(r.real_damage) \o ")",
                    "Enemy armor:  " \o Fmt0f(r.enemy_armor_used)
                      \o "   |  MR: " \o Fmt0f(r.enemy_mr_used)>>
        active == IF r.active_item_damage > 0
                  THEN <<"Active items: +" \o Fmt0f(r.active_item_damage) \o " dmg">>
                  ELSE <<>>
        combo  == <<"", "Combo:  " \o r.spell_order, "">>
        all_warnings == r.flags \o r.summoner_warnings \o r.item_flags
        flags  == IF all_warnings # <<>>
                  THEN <<"-- Flags ----------------------">>
                         \o [i \in 1..Len(all_warnings) |-> "  " \o all_warnings[i]]
                  ELSE <<>>
    IN  header \o damage \o active \o combo \o flags

\* format_result without its early return: a variant C7 must tell from
\* format_result
FormatWithoutEarlyReturn(r) ==
  IF r.paused THEN <<"[ PAUSED ] " \o r.pause_reason>> \o FormatLines(r)
  ELSE FormatLines(r)

\* format_result: the text as its lines (a paused result gives one line)
format_result(r) ==
  IF r.paused THEN <<"[ PAUSED ] " \o r.pause_reason>>
  ELSE FormatLines(r)

\* ------------------------------------------------------- state

VARIABLES
  pc,          \* where the run stands: "call", "evaluated", "raised",
               \* "formatted"; "lookup", "looked_up" for a rank lookup
  call,        \* the arguments of calculate_kill_chance
  result,      \* what calculate_kill_chance gave: Returned(..) or Raised(..)
  text,        \* the lines format_result gave
  rank_query,  \* the arguments of get_base_damage_at_rank
  base_damage, \* what get_base_damage_at_rank gave, with the subscript it read
  api,         \* what the Live Client API answers now, per endpoint: None
               \* when the request fails
  reply,       \* the helper of live_client.py that ran, and what it returned
  screen,      \* what the screen shows where the target panel is drawn
  panel,       \* what read_target_panel returned
  cache,       \* _last_known_hp of main.py: champion -> HP fraction
  overlay,     \* what the overlay was last told to show, and whether it shows
  tables,      \* the module-level tables the calculator reads, as objects
               \* of the running program
  probe,       \* the argument of a helper that is called on its own
  probed,      \* what that helper returned
  kill_overlay, \* the KillOverlay object: the pending text and verdict, its
               \* lock, the callbacks scheduled with after(), the widgets
  threads      \* the polling thread inside update and the UI thread inside
               \* _apply_update: their positions and locals

client_vars == <<api, reply>>

panel_vars == <<screen, panel>>

loop_vars == <<cache, overlay>>

probe_vars == <<probe, probed>>

overlay_vars == <<kill_overlay, threads>>

\* the variables outside the calculator
env_vars == <<client_vars, panel_vars, loop_vars, tables, probe_vars, overlay_vars>>

vars == <<pc, call, result, text, rank_query, base_damage, api, reply, screen, panel, cache, overlay, tables, probe, probed, kill_overlay, threads>>

NoResult == [exc |-> "none", value |-> 0]

NoCall == [my_state |-> <<>>, enemy |-> <<>>, enemy_hp_percent |-> None,
           my_hp_percent |-> None, allies_nearby |-> 0, game_time |-> 0]

NoQuery == [component |-> <<>>, spell_ranks |-> <<>>]

\* no request was made: every endpoint down
NoApi == [gamestats |-> None, playerlist |-> None, activeplayer |-> None]

NoReply == [helper |-> "", value |-> None]

ClientIdle ==
  /\ api = NoApi
  /\ reply = NoReply

\* nothing on the screen, OCR not installed
NoScreen == [ocr_ready |-> FALSE, bar |-> "none",
             hp |-> [raises |-> TRUE, nums |-> <<>>],
             mp |-> [raises |-> TRUE, nums |-> <<>>]]

\* `panel = {}` of the main loop
NoPanel == <<>>

PanelIdle ==
  /\ screen = NoScreen
  /\ panel = NoPanel

\* the overlay before its first update
NoOverlay == [header |-> <<>>, lines |-> <<>>, verdict |-> "", visible |-> FALSE]

LoopIdle ==
  /\ cache = <<>>
  /\ overlay = NoOverlay

\* the tables are not tracked
TablesIdle == tables = <<>>

\* no helper is called on its own
NoProbe == <<>>

ProbeIdle ==
  /\ probe = NoProbe
  /\ probed = NoProbe

\* no KillOverlay object is tracked
NoKillOverlay == <<>>

\* no thread is inside the overlay
NoThreads == <<>>

OverlayIdle ==
  /\ kill_overlay = NoKillOverlay
  /\ threads = NoThreads

\* the variables outside the calculator, at rest
EnvIdle ==
  ClientIdle /\ PanelIdle /\ LoopIdle /\ TablesIdle /\ ProbeIdle /\ OverlayIdle

\* marks a key the dict does not hold
Absent == <<0, 0>>

\* ------------------------------------------------------- bounds and inputs

\* attack damage runs over 50, 115, ..., 50 + 65 * MaxAdSteps
MaxAdSteps == 4

\* the target holds at most this many of EnemyItemPool
MaxItems == 5

\* ability ranks run over -MaxNegRank .. MaxRank
MaxRank == 7

MaxNegRank == 6

\* d with key k set to v
With(d, k, v) == (k :> v) @@ d

\* d without key k
Without(d, k) == [x \in DOMAIN d \ {k} |-> d[x]]

\* the elements of seq at the indices idx, in order
RECURSIVE SubSeqAt(_, _, _)
SubSeqAt(seq, idx, i) ==
  IF i > Len(seq) THEN <<>>
  ELSE (IF i \in idx THEN <<seq[i]>> ELSE <<>>) \o SubSeqAt(seq, idx, i + 1)

ADs == {(50 + 65 * k) * Centi : k \in 0..MaxAdSteps}

\* a snapshot as get_my_state builds it (the keys the calculator reads)
MyBase ==
  [champion |-> "Teemo", level |-> 1, total_ad |-> 50 * Centi, ap |-> 0,
   lethality |-> 0, armor_pen_pct |-> 0, magic_pen_flat |-> 0,
   spell_ranks |-> [k \in {"q", "w", "e", "r"} |-> 1],
   items |-> <<>>, hp_percent |-> Unit]

\* a snapshot as get_enemies_state builds it (the keys the calculator reads)
EnemyBase ==
  [champion |-> "Unknown", level |-> 1, items |-> <<>>,
   summoners |-> <<"SummonerFlash", "SummonerDot">>,
   is_dead |-> FALSE, hp_percent |-> None]

Call(my_state, enemy, enemy_hp_percent, my_hp_percent, allies_nearby, game_time) ==
  [my_state |-> my_state, enemy |-> enemy, enemy_hp_percent |-> enemy_hp_percent,
   my_hp_percent |-> my_hp_percent, allies_nearby |-> allies_nearby,
   game_time |-> game_time]

EnemyItemPool ==
  <<"Eclipse", "Sterak's Gage", "Death's Dance", "Gargoyle Stoneplate",
    "Immortal Shieldbow", "Guardian Angel", "Warmog's Armor", "Doran's Blade">>

EnemyItemLists ==
  {SubSeqAt(EnemyItemPool, idx, 1) :
     idx \in {s \in SUBSET (1..Len(EnemyItemPool)) : Cardinality(s) <= MaxItems}}

SummonerPairs ==
  {<<"SummonerFlash", "SummonerDot">>, <<"SummonerBarrier", "SummonerFlash">>,
   <<"SummonerHeal", "SummonerBarrier">>, <<"SummonerExhaust", "SummonerBarrier">>,
   <<"SummonerExhaust", "SummonerShield">>}

\* hp_max_real as the panel injects it: absent, or a reading
MaxHpReadings == {None, Some(0), Some(1050 * Centi), Some(2000 * Centi)}

\* calls that vary the target's items and summoner spells and the damage
PenaltyCalls ==
  {Call(With(MyBase, "total_ad", ad),
        With(With(With(EnemyBase, "items", items), "summoners", s), "hp_max_real", m),
        override, Some(Unit), 0, 600 * 10) :
     ad \in ADs, items \in EnemyItemLists, s \in SummonerPairs,
     m \in {None, Some(1050 * Centi), Some(2000 * Centi)},
     override \in {None, Some(4000)}}

\* HP fractions as the panel, the cache or a direct caller may give them
HpFractions ==
  {None, Some(-1000), Some(0), Some(1), Some(4000), Some(Unit), Some(Unit + 1),
   Some(15000)}

\* calls that vary the target's HP inputs
HpCalls ==
  {Call(With(MyBase, "champion", mc),
        LET e == With(With(With(EnemyBase, "champion", ec.champion), "level", ec.level),
                      "items", items)
            f == IF hp = Absent THEN Without(e, "hp_percent")
                 ELSE With(e, "hp_percent", hp)
        IN  IF m = Absent THEN f ELSE With(f, "hp_max_real", m),
        override, None, 0, 600 * 10) :
     mc \in {"Teemo", "Kha'Zix"},
     ec \in {[champion |-> "Unknown", level |-> 1], [champion |-> "Darius", level |-> 10]},
     items \in {<<>>, <<"Warmog's Armor">>, <<"Thornmail", "Guardian Angel">>},
     hp \in {Absent, None, Some(0), Some(5000), Some(20000)},
     m \in {Absent} \cup MaxHpReadings,
     override \in HpFractions}

\* game times in tenths of a second around the two time checks
GameTimes == {0, 5, 99, 100, 600 * 10, 2700 * 10, 2700 * 10 + 1}

\* calls that vary what the auto-pause checks read
GateCalls ==
  {Call(IF snap = Absent THEN Without(MyBase, "hp_percent")
        ELSE With(MyBase, "hp_percent", snap[1]),
        LET e == With(EnemyBase, "items", items)
        IN  IF dead = Absent THEN Without(e, "is_dead")
            ELSE With(e, "is_dead", dead[1]),
        override, my_hp, 0, t) :
     snap \in {Absent, Some(2000), Some(9000)},
     items \in {<<>>, <<"Guardian Angel", "Warmog's Armor">>},
     dead \in {Absent, <<FALSE>>, <<TRUE>>},
     override \in {None, Some(4000)},
     my_hp \in {None, Some(0), Some(2000), Some(3499), Some(3500), Some(9000)},
     t \in GameTimes}

\* spell_ranks as get_my_state builds them: unlearned abilities have rank 0
SpellRankDicts ==
  {[q |-> 3, w |-> 1, e |-> 3, r |-> 1], [q |-> 1, w |-> 0, e |-> 0, r |-> 0],
   [q |-> 5, w |-> 5, e |-> 5, r |-> 3]}

\* calls that vary the attacker
AttackerCalls ==
  {Call(LET a == [MyBase EXCEPT !.champion = mc, !.level = lv.my, !.total_ad = ad,
                                !.lethality = pen.lethality,
                                !.armor_pen_pct = pen.armor_pen_pct,
                                !.items = items]
        IN  IF ranks = Absent THEN Without(a, "spell_ranks")
            ELSE With(a, "spell_ranks", ranks[1]),
        [EnemyBase EXCEPT !.level = lv.enemy],
        Some(4000), None, allies, 600 * 10) :
     mc \in {"Kha'Zix", "Briar", "Warwick", "Master Yi", "Teemo"},
     lv \in {[my |-> 1, enemy |-> 1], [my |-> 11, enemy |-> 10]},
     ad \in ADs,
     pen \in {[lethality |-> 0, armor_pen_pct |-> 0],
              [lethality |-> 18 * Centi, armor_pen_pct |-> 3000]},
     items \in {<<>>, <<"Galeforce">>, <<"Hextech Rocketbelt", "The Collector">>},
     ranks \in {Absent} \cup {Some(d) : d \in SpellRankDicts},
     allies \in {0, 2}}

Calls == PenaltyCalls \cup HpCalls \cup GateCalls \cup AttackerCalls

\* ------------------------------------------------------- the evaluation

Init ==
  /\ pc = "call"
  /\ call \in Calls
  /\ result = NoResult
  /\ text = <<>>
  /\ rank_query = NoQuery
  /\ base_damage = NoResult
  /\ EnvIdle

\* result = calculate_kill_chance(...), or the exception it raises
Calculate ==
  /\ pc = "call"
  /\ result' = calculate_kill_chance(call.my_state, call.enemy, call.enemy_hp_percent,
                                     call.my_hp_percent, call.allies_nearby,
                                     call.game_time)
  /\ pc' = IF result'.exc = "" THEN "evaluated" ELSE "raised"
  /\ UNCHANGED <<call, text, rank_query, base_damage>>
  /\ UNCHANGED env_vars

\* text = format_result(result)
Format ==
  /\ pc = "evaluated"
  /\ text' = format_result(result.value)
  /\ pc' = "formatted"
  /\ UNCHANGED <<call, result, rank_query, base_damage>>
  /\ UNCHANGED env_vars

Next == Calculate \/ Format

Spec == Init /\ [][Next]_vars

\* ------------------------------------------------------- format_result alone

\* results as any caller may hand them to format_result: a fresh
\* KillCalcResult with some fields set
FormatInputs ==
  {[KillCalcResult(enemy_champion, "Kha'Zix") EXCEPT
      !.paused = paused, !.pause_reason = pause_reason, !.verdict = verdict,
      !.confidence = confidence, !.kill_ratio = confidence,
      !.active_item_damage = active_item_damage,
      !.spell_order = spell_order, !.flags = flags, !.item_flags = item_flags] :
     enemy_champion \in {"Darius", "Unknown"},
     paused \in BOOLEAN,
     pause_reason \in {"", "Enemy is dead", "Pre-game (< 10s)"},
     verdict \in {"GO", "RISKY", "NO GO", "PAUSED"},
     confidence \in {0, 8000},
     active_item_damage \in {0, 100 * Centi},
     spell_order \in {"", "E > Q > W > AA"},
     flags \in {<<>>, <<"Solo engage - watch for Phase Rush / Flash escape">>},
     item_flags \in {<<>>, <<"(red) Guardian Angel: revive possible">>}}

InitFormat ==
  /\ pc = "evaluated"
  /\ call = NoCall
  /\ result \in {Returned(r) : r \in FormatInputs}
  /\ text = <<>>
  /\ rank_query = NoQuery
  /\ base_damage = NoResult
  /\ EnvIdle

NextFormat == Format

SpecFormat == InitFormat /\ [][NextFormat]_vars

\* ------------------------------------------------------- get_base_damage_at_rank alone

\* every component of every combo in CHAMPION_COMBOS
Components ==
  UNION {{CHAMPION_COMBOS[c].damage_components[i] :
            i \in DOMAIN CHAMPION_COMBOS[c].damage_components} :
         c \in DOMAIN CHAMPION_COMBOS}

Ranks == (0 - MaxNegRank)..MaxRank

\* spell_ranks dicts: every ability at one rank, or no ability listed
RankDicts == {[k \in {"q", "w", "e", "r"} |-> rank] : rank \in Ranks} \cup {<<>>}

InitRank ==
  /\ pc = "lookup"
  /\ call = NoCall
  /\ result = NoResult
  /\ text = <<>>
  /\ rank_query \in [component : Components, spell_ranks : RankDicts]
  /\ base_damage = NoResult
  /\ EnvIdle

\* base_damage = get_base_damage_at_rank(component, spell_ranks), or the
\* exception it raises
Lookup ==
  /\ pc = "lookup"
  /\ base_damage' = get_base_damage_at_rank(rank_query.component,
                                            rank_query.spell_ranks)
  /\ pc' = "looked_up"
  /\ UNCHANGED <<call, result, text, rank_query>>
  /\ UNCHANGED env_vars

NextRank == Lookup

SpecRank == InitRank /\ [][NextRank]_vars

\* ------------------------------------------------------- properties

\* calculate_kill_chance has returned a result
Evaluated == pc \in {"evaluated", "formatted"}

\* ... and the result is not paused
NonPaused == Evaluated /\ ~result.value.paused

\* the locals of the run of calculate_kill_chance(c) that was not paused
CallLocals(c) ==
  EvaluationLocals(c.my_state, c.enemy,
    _build_enemy_stats(c.enemy, c.enemy_hp_percent), c.allies_nearby,
    _calculate_combo_damage(c.my_state,
      _build_enemy_stats(c.enemy, c.enemy_hp_percent),
      Get(c.my_state, "spell_ranks", [k \in {"q", "w", "e", "r"} |-> 1])).value)

\* the penalty sources that fired: each one appends one line to item_flags or
\* to summoner_warnings
PenaltySources(r) == Len(r.item_flags) + Len(r.summoner_warnings)

\* C1: in every result that is not paused the verdict agrees with the
\* confidence field: GO exactly when confidence >= 0.80, RISKY exactly when
\* 0.60 <= confidence < 0.80, NO GO exactly when confidence < 0.60.
C1_VerdictAgreesWithConfidence ==
  NonPaused =>
    /\ (result.value.verdict = "GO") <=> (result.value.confidence >= 8000)
    /\ (result.value.verdict = "RISKY")
         <=> (6000 <= result.value.confidence /\ result.value.confidence < 8000)
    /\ (result.value.verdict = "NO GO") <=> (result.value.confidence < 6000)

\* C2: the confidence of every result is in [0, 0.97]; when the result is not
\* paused it is at most 0.97 - min(0.40, confidence_penalty), and the
\* uncertainty subtracted is in [0, 0.40].
C2_ConfidenceBounds ==
  Evaluated =>
    /\ 0 <= result.value.confidence /\ result.value.confidence <= 9700
    /\ ~result.value.paused =>
         /\ result.value.confidence
              <= 9700 - Min(4000, CallLocals(call).confidence_penalty)
         /\ 0 <= CallLocals(call).uncertainty
         /\ CallLocals(call).uncertainty <= 4000
         /\ CallLocals(call).final_conf
              >= CallLocals(call).base_conf - 4000

\* C2's case: both caps bind, the kill ratio above 0.97 and the penalty
\* above 0.40, and 0.57 is reported
C2_Witness ==
  /\ NonPaused
  /\ CallLocals(call).kill_ratio > 9700
  /\ CallLocals(call).confidence_penalty > 4000
  /\ result.value.confidence = 5700

\* C3 as stated: when six or more penalty sources fire, exactly 0.40 is
\* subtracted: final_conf is min(0.97, kill_ratio) - 0.40 (or 0, the floor C2
\* states, when that is negative).
C3_SixSourcesSubtractForty ==
  (NonPaused /\ PenaltySources(result.value) >= 6) =>
    CallLocals(call).final_conf
      = Max(0, Min(9700, CallLocals(call).kill_ratio) - 4000)

\* C3, amended: when the accumulated penalty is at least 0.40, the
\* uncertainty is exactly 0.40 and the confidence reported is
\* max(0, min(0.97, kill_ratio) - 0.40), rounded to three places.
C3_PenaltyAtLeastFortySubtractsForty ==
  (NonPaused /\ CallLocals(call).confidence_penalty >= 4000) =>
    /\ CallLocals(call).uncertainty = 4000
    /\ result.value.confidence
         = RoundTo(Max(0, Min(9700, CallLocals(call).kill_ratio) - 4000), 10)

\* C3's case: six sources whose penalties pass 0.40, with confidence left
\* after the subtraction
C3_Witness ==
  /\ NonPaused
  /\ PenaltySources(result.value) >= 6
  /\ CallLocals(call).confidence_penalty > 4000
  /\ result.value.confidence > 0
  /\ result.value.confidence < 5700

\* the attacker HP fraction as C4 states it: my_hp_percent when it is
\* supplied, else the snapshot's hp_percent
StatedAttackerHp(c) ==
  IF c.my_hp_percent # None THEN c.my_hp_percent[1]
  ELSE Get(c.my_state, "hp_percent", Unit)

\* C4: the result is paused exactly when 0 < game_time < 10, or the attacker
\* HP fraction (my_hp_percent when supplied, 0.0 included, else the
\* snapshot's) is below 0.35, or the target is dead, or game_time > 2700.
C4_PausedExactlyWhen ==
  Evaluated =>
    (result.value.paused <=>
       \/ (0 < call.game_time /\ call.game_time < 10 * 10)
       \/ StatedAttackerHp(call) < 3500
       \/ Get(call.enemy, "is_dead", FALSE)
       \/ call.game_time > 2700 * 10)

\* C5: the pause reason is that of the first condition that holds, in the
\* order pre-game, attacker HP too low, target dead, late game.
C5_FirstReasonWins ==
  (Evaluated /\ result.value.paused) =>
    result.value.pause_reason =
      (IF 0 < call.game_time /\ call.game_time < 10 * 10
         THEN "Pre-game (< 10s)"
       ELSE IF StatedAttackerHp(call) < 3500
         THEN "Your HP too low (" \o FmtPct(StatedAttackerHp(call)) \o ")"
       ELSE IF Get(call.enemy, "is_dead", FALSE)
         THEN "Enemy is dead"
       ELSE "Late game (>45min) - calc unreliable")

\* C6: a paused result holds the two champion names, paused = True and the
\* reason, and every other field at its initial value.
C6_PausedResultIsBlank ==
  (Evaluated /\ result.value.paused) =>
    /\ DOMAIN result.value = DOMAIN KillCalcResult("", "")
    /\ result.value.enemy_champion = Get(call.enemy, "champion", "Unknown")
    /\ result.value.my_champion = Get(call.my_state, "champion", "Unknown")
    /\ result.value.pause_reason # ""
    /\ \A f \in {"raw_damage", "real_damage", "active_item_damage",
                 "enemy_current_hp", "enemy_max_hp", "enemy_effective_hp",
                 "enemy_armor_used", "enemy_mr_used", "kill_ratio", "confidence"} :
         result.value[f] = 0
    /\ result.value.enemy_hp_percent = Unit
    /\ result.value.verdict = "NO GO"
    /\ result.value.combo_label = "" /\ result.value.spell_order = ""
    /\ result.value.flags = <<>>
    /\ result.value.summoner_warnings = <<>>
    /\ result.value.item_flags = <<>>

\* C6's case: a call that would flag items and summoner spells is paused
\* because the target is dead
C6_Witness ==
  /\ Evaluated
  /\ result.value.paused
  /\ result.value.pause_reason = "Enemy is dead"
  /\ Get(call.enemy, "items", <<>>) # <<>>
  /\ call.enemy_hp_percent # None

\* C7: the text of a paused result is the pause marker and the reason, and
\* nothing else, whatever the other fields hold.
C7_PausedTextIsReasonOnly ==
  (pc = "formatted" /\ result.value.paused) =>
    text = <<"[ PAUSED ] " \o result.value.pause_reason>>

\* C7's case: a paused result whose other fields are set is formatted
C7_Witness ==
  /\ pc = "formatted"
  /\ result.value.paused
  /\ result.value.verdict = "GO"
  /\ result.value.flags # <<>>
  /\ result.value.active_item_damage > 0
  /\ text # <<>>

\* C8: with a non-zero hp_max_real in the target snapshot, enemy_max_hp is
\* that value, whatever the items, and armor and MR are what they are without
\* it.
C8_ObservedMaxHpIsUsed ==
  (NonPaused /\ Truthy(Get(call.enemy, "hp_max_real", None))) =>
    /\ result.value.enemy_max_hp = call.enemy.hp_max_real[1]
    /\ result.value.enemy_armor_used
         = _build_enemy_stats(Without(call.enemy, "hp_max_real"), None).armor
    /\ result.value.enemy_mr_used
         = _build_enemy_stats(Without(call.enemy, "hp_max_real"), None).mr

\* the HP fraction handed in, as C9 states it: the override unless it is
\* None, else the snapshot's (None when the snapshot has none)
StatedHpInput(c) ==
  IF c.enemy_hp_percent # None THEN c.enemy_hp_percent
  ELSE Get(c.enemy, "hp_percent", None)

\* C9: the target HP fraction of an evaluation is in (0, 1]: an input that is
\* missing, None, zero, negative or above 1 gives 1.0, and an input in (0, 1]
\* is used as it is; the override goes before the snapshot unless it is None.
C9_HpFractionClamped ==
  NonPaused =>
    /\ 0 < result.value.enemy_hp_percent
    /\ result.value.enemy_hp_percent <= Unit
    /\ result.value.enemy_hp_percent =
         (IF StatedHpInput(call) = None \/ StatedHpInput(call)[1] <= 0
              \/ StatedHpInput(call)[1] > Unit
          THEN Unit ELSE StatedHpInput(call)[1])

\* C9's case: an override above 1 goes before a snapshot value in (0, 1] and
\* is replaced by 1.0
C9_Witness ==
  /\ NonPaused
  /\ call.enemy_hp_percent # None
  /\ call.enemy_hp_percent[1] > Unit
  /\ Get(call.enemy, "hp_percent", None) = Some(5000)
  /\ result.value.enemy_hp_percent = Unit

\* C10: with a rank source, the lookup reads a subscript inside the table for
\* every integer rank, gives the entry rank - 1 for ranks 1..len(table) and the
\* last entry for higher ranks, and takes a missing rank as 1; without a rank
\* source it gives the first entry.
C10_RankLookup ==
  pc = "looked_up" =>
    IF Get(rank_query.component, "rank_index", None) = None
    THEN base_damage = Returned(rank_query.component.base[1])
    ELSE LET table == rank_query.component.base
             rank  == Get(rank_query.spell_ranks,
                          rank_query.component.rank_index[1], 1)
         IN  /\ base_damage.exc = ""
             /\ RankSubscript(rank_query.component, rank_query.spell_ranks)
                  \in 0..(Len(table) - 1)
             /\ rank \in 1..Len(table) => base_damage.value = table[rank]
             /\ rank > Len(table) => base_damage.value = table[Len(table)]

\* ------------------------------------------------------- calls on the target's build

\* item lists of the target: items of ITEM_STATS with and without a shield,
\* items no table lists ("Doran's Blade", ""), and repeated items
TargetItemLists ==
  {<<>>, <<"Doran's Blade">>, <<"Guardian Angel">>,
   <<"Guardian Angel", "Guardian Angel">>,
   <<"Doran's Blade", "Guardian Angel", "">>,
   <<"Immortal Shieldbow">>, <<"Maw of Malmortius", "Doran's Blade">>,
   <<"Gargoyle Stoneplate">>, <<"Edge of Night">>, <<"Sterak Gage">>,
   <<"Sterak's Gage">>, <<"Warmog's Armor", "Immortal Shieldbow">>,
   <<"Death's Dance", "Guardian Angel">>}

\* summoner spell lists of the target, "" and Flash / Dot being spells
\* SUMMONER_ADJUSTMENTS does not list
TargetSummoners ==
  {<<"SummonerFlash", "SummonerDot">>, <<"", "SummonerBarrier">>,
   <<"SummonerHeal", "SummonerFlash">>, <<"SummonerExhaust", "SummonerBarrier">>,
   <<"SummonerExhaust", "SummonerDot">>, <<"SummonerBarrier", "SummonerHeal">>}

TargetCalls ==
  {Call([MyBase EXCEPT !.champion = mc, !.total_ad = ad, !.items = my_items],
        [EnemyBase EXCEPT !.champion = ec, !.level = 6, !.items = items,
                          !.summoners = s],
        override, None, 0, 600 * 10) :
     mc \in {"Teemo", "Kha'Zix", "Warwick"},
     ad \in ADs,
     my_items \in {<<>>, <<"Galeforce">>, <<"Doran's Blade", "Hextech Rocketbelt">>},
     ec \in {"Unknown", "Darius"},
     items \in TargetItemLists,
     s \in TargetSummoners,
     override \in {None, Some(4000)}}

InitTarget ==
  /\ pc = "call"
  /\ call \in TargetCalls
  /\ result = NoResult
  /\ text = <<>>
  /\ rank_query = NoQuery
  /\ base_damage = NoResult
  /\ EnvIdle

NextTarget == Calculate

SpecTarget == InitTarget /\ [][NextTarget]_vars

\* an item of the target that some table of the program lists
KnownTargetItem(name) ==
  _normalize_item_key(name) \in DOMAIN ITEM_STATS \cup DOMAIN ITEM_CD_FLAGS

\* an item of the attacker that ACTIVE_DAMAGE_ITEMS lists
KnownAttackerItem(name) == ActiveItemKey(name) \in DOMAIN ACTIVE_DAMAGE_ITEMS

KnownSummoner(s) == s \in DOMAIN SUMMONER_ADJUSTMENTS

\* the call c without the items and spells that no table lists, and with
\* "_default" for a champion that its table does not list
WithoutUnknown(c) ==
  [c EXCEPT
     !.my_state.items = SelectSeq(c.my_state.items, KnownAttackerItem),
     !.my_state.champion =
        IF ChampionKey(c.my_state.champion) \in DOMAIN CHAMPION_COMBOS
        THEN c.my_state.champion ELSE "_default",
     !.enemy.items = SelectSeq(c.enemy.items, KnownTargetItem),
     !.enemy.summoners = SelectSeq(c.enemy.summoners, KnownSummoner),
     !.enemy.champion =
        IF ChampionKey(c.enemy.champion) \in DOMAIN CHAMPION_STATS
        THEN c.enemy.champion ELSE "_default"]

\* calculate_kill_chance(c)
ResultOf(c) ==
  calculate_kill_chance(c.my_state, c.enemy, c.enemy_hp_percent, c.my_hp_percent,
                        c.allies_nearby, c.game_time)

\* C11: no call with unknown keys raises, and its result is the result of the
\* call without the unknown items and spells and with the default champion
\* entries in place of unknown champions (the two names aside).
C11_UnknownKeysIgnored ==
  /\ pc # "raised"
  /\ Evaluated =>
       result.value =
         [ResultOf(WithoutUnknown(call)).value EXCEPT
            !.enemy_champion = result.value.enemy_champion,
            !.my_champion = result.value.my_champion]

\* C11's case: an evaluation with an unknown item on each side next to known
\* ones, an unknown spell and unknown champions
C11_Witness ==
  /\ NonPaused
  /\ call.my_state.champion = "Teemo"
  /\ call.enemy.champion = "Unknown"
  /\ call.my_state.items = <<"Doran's Blade", "Hextech Rocketbelt">>
  /\ call.enemy.items = <<"Doran's Blade", "Guardian Angel", "">>
  /\ call.enemy.summoners = <<"", "SummonerBarrier">>
  /\ result.value.active_item_damage > 0

\* ------------------------------------------------------- calls on the target's level

\* levels run over -1 .. MaxLevel
MaxLevel == 20

\* the keys of CHAMPION_STATS are names their normaliser leaves as they are
LevelCalls ==
  {Call(MyBase,
        [EnemyBase EXCEPT !.champion = ec, !.level = level, !.items = items],
        None, None, 0, 600 * 10) :
     ec \in DOMAIN CHAMPION_STATS \cup {"Unknown"},
     level \in (0 - 1)..MaxLevel,
     items \in {<<>>, <<"Thornmail", "Warmog's Armor">>, <<"Maw of Malmortius">>}}

InitLevel ==
  /\ pc = "call"
  /\ call \in LevelCalls
  /\ result = NoResult
  /\ text = <<>>
  /\ rank_query = NoQuery
  /\ base_damage = NoResult
  /\ EnvIdle

NextLevel == Calculate

SpecLevel == InitLevel /\ [][NextLevel]_vars

\* the row of CHAMPION_STATS for the target of c
StatedRow(c) ==
  IF ChampionKey(c.enemy.champion) \in DOMAIN CHAMPION_STATS
  THEN CHAMPION_STATS[ChampionKey(c.enemy.champion)]
  ELSE CHAMPION_STATS["_default"]

\* the level of the target of c, brought into 1..18
StatedLevel(c) ==
  IF c.enemy.level < 1 THEN 1 ELSE IF c.enemy.level > 18 THEN 18 ELSE c.enemy.level

\* C12: with the items fixed, armor, MR and max HP are base + per_level *
\* (level - 1) plus the items' stats for the level brought into 1..18, and
\* they do not decrease when the level goes up by one.
C12_StatsLinearAndMonotonic ==
  NonPaused =>
    /\ result.value.enemy_armor_used =
         StatedRow(call).base_armor
           + StatedRow(call).armor_per_level * (StatedLevel(call) - 1)
           + ItemStatSum(call.enemy.items, "armor")
    /\ result.value.enemy_mr_used =
         StatedRow(call).base_mr
           + StatedRow(call).mr_per_level * (StatedLevel(call) - 1)
           + ItemStatSum(call.enemy.items, "mr")
    /\ result.value.enemy_max_hp =
         StatedRow(call).base_hp
           + StatedRow(call).hp_per_level * (StatedLevel(call) - 1)
           + ItemStatSum(call.enemy.items, "hp")
    /\ result.value.enemy_armor_used
         <= ResultOf([call EXCEPT !.enemy.level = @ + 1]).value.enemy_armor_used
    /\ result.value.enemy_mr_used
         <= ResultOf([call EXCEPT !.enemy.level = @ + 1]).value.enemy_mr_used
    /\ result.value.enemy_max_hp
         <= ResultOf([call EXCEPT !.enemy.level = @ + 1]).value.enemy_max_hp

\* C12's case: a target above level 18 that holds items is evaluated with
\* the stats of level 18
C12_Witness ==
  /\ NonPaused
  /\ call.enemy.champion = "darius"
  /\ call.enemy.level > 18
  /\ call.enemy.items # <<>>
  /\ result.value.enemy_max_hp
       = ResultOf([call EXCEPT !.enemy.level = 18]).value.enemy_max_hp
  /\ result.value.enemy_max_hp
       > ResultOf([call EXCEPT !.enemy.level = 17]).value.enemy_max_hp

\* the target of c holds an item that ITEM_STATS marks as reviving
HoldsRevive(c) ==
  \E i \in DOMAIN c.enemy.items :
     Get(Get(ITEM_STATS, _normalize_item_key(c.enemy.items[i]), <<>>), "revive", FALSE)

\* the locals of the run of calculate_kill_chance(c) had the revive flag of the
\* target's stats not been set
LocalsWithoutRevive(c) ==
  EvaluationLocals(c.my_state, c.enemy,
    [_build_enemy_stats(c.enemy, c.enemy_hp_percent) EXCEPT !.item_revive = FALSE],
    c.allies_nearby,
    _calculate_combo_damage(c.my_state,
      _build_enemy_stats(c.enemy, c.enemy_hp_percent),
      Get(c.my_state, "spell_ranks", [k \in {"q", "w", "e", "r"} |-> 1])).value)

\* how many entries of seq equal x
Count(seq, x) == Cardinality({i \in DOMAIN seq : seq[i] = x})

\* C13: a target with a revive item and no pause condition gives a result
\* that is not paused, with the revive warning in item_flags once, the
\* effective HP of the run without the revive flag, and 0.20 more penalty than
\* that run, however many revive items are held.
C13_ReviveWarnsAndPenalises ==
  (Evaluated /\ HoldsRevive(call)
     /\ AutoPause(AttackerHp(call.my_state, call.my_hp_percent), call.enemy,
                  call.game_time) = None) =>
    /\ ~result.value.paused
    /\ Count(result.value.item_flags, "(red) Guardian Angel: revive possible") = 1
    /\ result.value.enemy_effective_hp
         = RoundTo(LocalsWithoutRevive(call).effective_hp_items, 10)
    /\ CallLocals(call).effective_hp = LocalsWithoutRevive(call).effective_hp
    /\ CallLocals(call).confidence_penalty
         = LocalsWithoutRevive(call).confidence_penalty + 2000

\* C13's case: a target holding the revive item twice, at reduced HP
C13_Witness ==
  /\ NonPaused
  /\ call.enemy.items = <<"Guardian Angel", "Guardian Angel">>
  /\ call.enemy_hp_percent = Some(4000)
  /\ CallLocals(call).confidence_penalty = 2000

\* the row of ITEM_STATS the held item name resolves to ({} when none)
HeldItemStats(name) == Get(ITEM_STATS, _normalize_item_key(name), <<>>)

\* a flat shield value, as C14 tells it from a fraction of max HP: a number
\* of HP, not a fraction below 1
FlatShield(stats) ==
  IF "passive_shield" \in DOMAIN stats /\ "num" \in DOMAIN stats.passive_shield
       /\ stats.passive_shield.num >= Centi
  THEN stats.passive_shield.num ELSE 0

\* the flat shields of the held items, summed
RECURSIVE FlatShieldSum(_)
FlatShieldSum(items) ==
  IF items = <<>> THEN 0
  ELSE FlatShield(HeldItemStats(Head(items))) + FlatShieldSum(Tail(items))

\* the shield effects of the held items, counted
RECURSIVE ShieldEffects(_)
ShieldEffects(items) ==
  IF items = <<>> THEN 0
  ELSE (IF "passive_shield" \in DOMAIN HeldItemStats(Head(items)) THEN 1 ELSE 0)
       + (IF "active_shield" \in DOMAIN HeldItemStats(Head(items)) THEN 1 ELSE 0)
       + ShieldEffects(Tail(items))

\* C14: the effective HP of the items is the current HP plus the flat shields
\* of the held items (times 1.15 under Death's Dance): shields that are a
\* fraction of max HP or a marker add no HP; each shield effect adds 0.08.
C14_ShieldEffects ==
  NonPaused =>
    /\ result.value.enemy_effective_hp =
         RoundTo(Scale(result.value.enemy_current_hp
                         + FlatShieldSum(call.enemy.items),
                       IF \E i \in DOMAIN call.enemy.items :
                            call.enemy.items[i] = "Death's Dance"
                       THEN 115 ELSE 100,
                       Centi), 10)
    /\ ShieldLoop(_build_enemy_stats(call.enemy, call.enemy_hp_percent).item_shields,
                  [effective_hp |-> 0, item_flags |-> <<>>,
                   confidence_penalty |-> 0]).confidence_penalty
         = 800 * ShieldEffects(call.enemy.items)

\* the call c with the attacker's total_ad replaced
WithAd(c, ad) == [c EXCEPT !.my_state.total_ad = ad]

\* the evaluations that differ from the call only in the attacker's AD, and
\* have at least its adjusted damage: the larger ADs and the double
StrongerCalls ==
  {c \in {WithAd(call, ad) : ad \in ADs \cup {2 * call.my_state.total_ad}} :
     /\ ~ResultOf(c).value.paused
     /\ CallLocals(c).adjusted_dealt >= CallLocals(call).adjusted_dealt
     /\ CallLocals(c).effective_hp = CallLocals(call).effective_hp
     /\ CallLocals(c).confidence_penalty = CallLocals(call).confidence_penalty}

\* C15: an evaluation that differs only in the attacker's AD and has at least
\* the adjusted damage (the double AD among them), with the same effective HP
\* and penalty, has a confidence that is not lower.
C15_ConfidenceMonotonic ==
  NonPaused =>
    \A c \in StrongerCalls :
       /\ ResultOf(c).value.confidence >= result.value.confidence
       /\ CallLocals(c).final_conf >= CallLocals(call).final_conf

\* the double AD raises the damage and the confidence strictly, and a larger
\* AD is held at the cap; penalties apply
C15_Witness ==
  /\ NonPaused
  /\ WithAd(call, 2 * call.my_state.total_ad) \in StrongerCalls
  /\ ResultOf(WithAd(call, 2 * call.my_state.total_ad)).value.confidence
       > result.value.confidence
  /\ ResultOf(WithAd(call, 2 * call.my_state.total_ad)).value.kill_ratio > 9700
  /\ result.value.kill_ratio > 0
  /\ CallLocals(call).confidence_penalty > 0

\* result.real_damage / max(result.enemy_effective_hp, 1), from the fields
ReportedRatio(r) == Ratio(r.real_damage, Max(r.enemy_effective_hp, Centi))

\* C16: in every non-paused result kill_ratio is real_damage divided by
\* max(enemy_effective_hp, 1), up to the rounding of the three fields (one
\* hundredth of the ratio and one thousandth are allowed here).
C16_KillRatioOfReportedFields ==
  NonPaused =>
    /\ 100 * (result.value.kill_ratio - ReportedRatio(result.value))
         <= ReportedRatio(result.value) + 10
    /\ 100 * (ReportedRatio(result.value) - result.value.kill_ratio)
         <= ReportedRatio(result.value) + 10

\* ... which does hold of the calls whose target has no known summoner spell
C16_HoldsWithoutSummoners ==
  (NonPaused /\ SelectSeq(call.enemy.summoners, KnownSummoner) = <<>>) =>
    /\ 100 * (result.value.kill_ratio - ReportedRatio(result.value))
         <= ReportedRatio(result.value) + 10
    /\ 100 * (ReportedRatio(result.value) - result.value.kill_ratio)
         <= ReportedRatio(result.value) + 10

\* ------------------------------------------------------- modules/live_client.py

\* `not x` of what _get returned: None, {} and [] are falsy
Falsy(opt) == opt = None \/ DOMAIN opt[1] = {}

\* _get(endpoint): the JSON of the answer, or None when the request fails
_get(a, endpoint) == a[endpoint]

is_game_active(a) == _get(a, "gamestats") # None

get_game_stats(a) == _get(a, "gamestats")

get_all_players(a) == _get(a, "playerlist")

get_active_player(a) == _get(a, "activeplayer")

\* p.get("summonerName") == name
NamedAs(p, name) == "summonerName" \in DOMAIN p /\ p.summonerName = name

\* next((p for p in all_players if p.get("summonerName") == name), None)
RECURSIVE FirstNamed(_, _)
FirstNamed(all_players, name) ==
  IF all_players = <<>> THEN None
  ELSE IF NamedAs(Head(all_players), name) THEN Some(Head(all_players))
  ELSE FirstNamed(Tail(all_players), name)

\* [item.get("displayName", "") for item in raw_items]
DisplayNames(raw_items) ==
  [i \in DOMAIN raw_items |-> Get(raw_items[i], "displayName", "")]

\* [s1.get("rawDisplayName", ""), s2.get("rawDisplayName", "")]
SummonerNames(p) ==
  <<Get(Get(Get(p, "summonerSpells", <<>>), "summonerSpellOne", <<>>),
        "rawDisplayName", ""),
    Get(Get(Get(p, "summonerSpells", <<>>), "summonerSpellTwo", <<>>),
        "rawDisplayName", "")>>

\* abilities.get(key, {}).get("abilityLevel", 1)
AbilityLevel(abilities, key) == Get(Get(abilities, key, <<>>), "abilityLevel", 1)

\* the dict get_my_state returns, from the two answers
MyState(player_data, all_players, stats, my_player_entry) ==
  [champion       |-> IF Get(player_data, "summonerName", "") # ""
                         /\ my_player_entry # None
                      THEN Get(my_player_entry[1], "championName", "Unknown")
                      ELSE "Unknown",
   level          |-> Get(player_data, "level", 1),
   current_hp     |-> Get(stats, "currentHealth", 500 * Centi),
   max_hp         |-> Get(stats, "maxHealth", 1000 * Centi),
   hp_percent     |-> Ratio(Get(stats, "currentHealth", 500 * Centi),
                            Max(Get(stats, "maxHealth", 1000 * Centi), Centi)),
   bonus_ad       |-> Get(stats, "bonusAttackDamage", 0),
   total_ad       |-> Get(stats, "attackDamage", 50 * Centi),
   ap             |-> Get(stats, "abilityPower", 0),
   armor_pen_flat |-> Get(stats, "armorPenetrationFlat", 0),
   armor_pen_pct  |-> Max(0, Unit - Get(stats, "armorPenetrationPercent", Unit)),
   magic_pen_flat |-> Get(stats, "magicPenetrationFlat", 0),
   magic_pen_pct  |-> Max(0, Unit - Get(stats, "magicPenetrationPercent", Unit)),
   lethality      |-> Get(stats, "armorPenetrationFlat", 0),
   spell_ranks    |-> [k \in {"q", "w", "e", "r"} |->
                         AbilityLevel(Get(player_data, "abilities", <<>>),
                                      CASE k = "q" -> "Q" [] k = "w" -> "W"
                                        [] k = "e" -> "E" [] k = "r" -> "R")],
   items          |-> IF my_player_entry # None
                      THEN DisplayNames(Get(my_player_entry[1], "items", <<>>))
                      ELSE <<>>,
   summoners      |-> IF my_player_entry # None
                      THEN SummonerNames(my_player_entry[1])
                      ELSE <<>>]

\* None when either answer is missing or empty, else the dict
get_my_state(a) ==
  IF Falsy(get_active_player(a)) \/ Falsy(get_all_players(a)) THEN None
  ELSE Some(MyState(get_active_player(a)[1], get_all_players(a)[1],
                    Get(get_active_player(a)[1], "championStats", <<>>),
                    FirstNamed(get_all_players(a)[1],
                               Get(get_active_player(a)[1], "summonerName", ""))))

\* p.get("team") == enemy_team
OnTeam(p, team) == "team" \in DOMAIN p /\ p.team = team

\* the dict of one enemy
EnemyState(p) ==
  [summoner_name |-> Get(p, "summonerName", ""),
   champion      |-> Get(p, "championName", "Unknown"),
   level         |-> Get(p, "level", 1),
   position      |-> Get(p, "position", ""),
   items         |-> DisplayNames(Get(p, "items", <<>>)),
   is_dead       |-> Get(p, "isDead", FALSE),
   respawn_timer |-> Get(p, "respawnTimer", 0),
   summoners     |-> SummonerNames(p),
   hp_percent    |-> None]

\* the players of the other team, as dicts
EnemyStates(enemies) == [i \in DOMAIN enemies |-> EnemyState(enemies[i])]

\* [] when the answer is missing or empty
get_enemies_state(a, my_team) ==
  IF Falsy(get_all_players(a)) THEN <<>>
  ELSE EnemyStates(SelectSeq(get_all_players(a)[1],
         LAMBDA p : OnTeam(p, IF my_team = "ORDER" THEN "CHAOS" ELSE "ORDER")))

\* "ORDER" when either answer is missing or empty, or the player is not listed
get_my_team(a, active_player) ==
  IF Falsy(IF active_player = None THEN get_active_player(a) ELSE active_player)
     \/ Falsy(get_all_players(a))
  THEN "ORDER"
  ELSE IF FirstNamed(get_all_players(a)[1],
            Get((IF active_player = None THEN get_active_player(a)
                 ELSE active_player)[1], "summonerName", "")) = None
  THEN "ORDER"
  ELSE Get(FirstNamed(get_all_players(a)[1],
             Get((IF active_player = None THEN get_active_player(a)
                  ELSE active_player)[1], "summonerName", ""))[1],
           "team", "ORDER")

\* stats.get("gameTime", 0.0) if stats else 0.0
get_game_time(a) ==
  IF ~Falsy(get_game_stats(a)) THEN Get(get_game_stats(a)[1], "gameTime", 0) ELSE 0

\* ------------------------------------------------------- the helpers of live_client.py alone

\* /gamestats: down, an empty object, the first instant of the game, a game
\* of ten minutes
GameStatsAnswers == {None, Some(<<>>), Some([gameTime |-> 0]),
                     Some([gameTime |-> 600 * 10])}

\* /activeplayer: down, an empty object, the local player in full and in part
ActivePlayerAnswers ==
  {None, Some(<<>>), Some([summonerName |-> "me"]),
   Some([summonerName |-> "me", level |-> 3,
         championStats |-> [currentHealth |-> 400 * Centi,
                            maxHealth |-> 800 * Centi,
                            attackDamage |-> 115 * Centi,
                            armorPenetrationPercent |-> 7000],
         abilities |-> [Q |-> [abilityLevel |-> 2]]])}

\* a row of /playerlist
Player(name, champion, team) ==
  [summonerName |-> name, championName |-> champion, team |-> team, level |-> 6,
   items |-> <<[displayName |-> "Guardian Angel"]>>, isDead |-> FALSE,
   summonerSpells |-> [summonerSpellOne |-> [rawDisplayName |-> "SummonerFlash"],
                       summonerSpellTwo |-> [rawDisplayName |-> "SummonerHeal"]]]

\* /playerlist: down, empty, the local player alone, the two sides either
\* way round, and rows without a team
PlayerListAnswers ==
  {None, Some(<<>>),
   Some(<<Player("me", "Kha'Zix", "ORDER")>>),
   Some(<<Player("me", "Kha'Zix", "ORDER"), Player("foe", "Darius", "CHAOS")>>),
   Some(<<Player("foe", "Darius", "ORDER"), Player("me", "Kha'Zix", "CHAOS")>>),
   Some(<<[summonerName |-> "me"], [summonerName |-> "foe", team |-> "CHAOS"]>>)}

ApiStates ==
  [gamestats : GameStatsAnswers, playerlist : PlayerListAnswers,
   activeplayer : ActivePlayerAnswers]

InitClient ==
  /\ pc = "query"
  /\ call = NoCall
  /\ result = NoResult
  /\ text = <<>>
  /\ rank_query = NoQuery
  /\ base_damage = NoResult
  /\ api \in ApiStates
  /\ reply = NoReply
  /\ PanelIdle
  /\ LoopIdle
  /\ TablesIdle
  /\ ProbeIdle
  /\ OverlayIdle

\* the caller runs one helper and keeps what it returned
Replied(helper, value) ==
  /\ pc = "query"
  /\ reply' = [helper |-> helper, value |-> value]
  /\ pc' = "replied"
  /\ UNCHANGED <<call, result, text, rank_query, base_damage, api>>
  /\ UNCHANGED <<panel_vars, loop_vars, tables>>
  /\ UNCHANGED <<probe_vars, overlay_vars>>

GetMyState == Replied("get_my_state", get_my_state(api))

GetGameTime == Replied("get_game_time", Some(get_game_time(api)))

GetMyTeam == Replied("get_my_team", Some(get_my_team(api, None)))

GetEnemiesState ==
  \E my_team \in {"ORDER", "CHAOS"} :
    Replied("get_enemies_state", Some(get_enemies_state(api, my_team)))

NextClient == GetMyState \/ GetGameTime \/ GetMyTeam \/ GetEnemiesState

SpecClient == InitClient /\ [][NextClient]_vars

\* the endpoints a helper queries
Queries(helper) ==
  CASE helper = "get_my_state"      -> {"activeplayer", "playerlist"}
    [] helper = "get_game_time"     -> {"gamestats"}
    [] helper = "get_my_team"       -> {"activeplayer", "playerlist"}
    [] helper = "get_enemies_state" -> {"playerlist"}
    [] OTHER                        -> {}

\* what the helper returns when every query it makes is answered with data
\* (an object or a list that is not empty): the real readings
Readings(helper) ==
  {CASE helper = "get_my_state"      -> get_my_state(a)
     [] helper = "get_game_time"     -> Some(get_game_time(a))
     [] helper = "get_my_team"       -> Some(get_my_team(a, None))
     [] helper = "get_enemies_state" -> Some(get_enemies_state(a, "ORDER"))
     [] OTHER                        -> None :
   a \in {s \in ApiStates : \A e \in Queries(helper) : ~Falsy(s[e])}}
    \cup
  {Some(get_enemies_state(a, "CHAOS")) :
   a \in {s \in ApiStates : helper = "get_enemies_state" /\ ~Falsy(s.playerlist)}}

\* a query of the helper that ran has failed
QueryFailed == \E e \in Queries(reply.helper) : api[e] = None

\* C17: when a query of the helper fails, what the helper returns is not a
\* value it also returns as a real reading (game time 0, team ORDER, no
\* enemies): the caller can tell the failure from data.
C17_FailureTellsApart ==
  (pc = "replied" /\ QueryFailed) => reply.value \notin Readings(reply.helper)

\* ... as holds of get_my_state, which answers None
C17_MyStateTellsApart ==
  (pc = "replied" /\ QueryFailed /\ reply.helper = "get_my_state") =>
     reply.value = None

\* ------------------------------------------------------- modules/target_panel_reader.py

_MAX_PLAUSIBLE_HP == 8000

_MAX_PLAUSIBLE_MANA == 3000

\* Colour detection is disabled in the code: the bar is not looked at.
_is_enemy_panel(sct) == TRUE

\* _ocr_pair after re.findall(r'\d+', raw): nums are the numbers OCR found in
\* the region; (cur, max) or None
_ocr_pair(nums, max_plausible) ==
  IF Len(nums) < 2 THEN None
  ELSE IF nums[2] = 0 \/ nums[2] > max_plausible THEN None
  ELSE IF 10 * nums[1] > 11 * nums[2] THEN None
  ELSE IF Min(nums[1], nums[2]) < 0 THEN None
  ELSE IF nums[2] < 100 THEN None
  ELSE Some(<<Min(nums[1], nums[2]), nums[2]>>)

\* the dict read_target_panel starts from
EmptyPanel ==
  [panel_active |-> FALSE, hp_current |-> None, hp_max |-> None,
   hp_percent |-> None, mp_current |-> None, mp_max |-> None,
   mp_percent |-> None]

\* the HP section: the fields written when the pair was read
HpSection(res, hp_pair) ==
  IF hp_pair = None THEN res
  ELSE [res EXCEPT !.hp_current = Some(hp_pair[1][1]),
                      !.hp_max = Some(hp_pair[1][2]),
                      !.hp_percent = Some(Ratio(hp_pair[1][1], hp_pair[1][2])),
                      !.panel_active = TRUE]

\* the mana section
MpSection(res, mp_pair) ==
  IF mp_pair = None THEN res
  ELSE [res EXCEPT !.mp_current = Some(mp_pair[1][1]),
                      !.mp_max = Some(mp_pair[1][2]),
                      !.mp_percent = Some(Ratio(mp_pair[1][1], mp_pair[1][2]))]

\* read_target_panel(sct): an exception of a grab or of OCR ends the reading
\* and what was written so far is returned
read_target_panel(sct) ==
  IF ~sct.ocr_ready THEN EmptyPanel
  ELSE IF ~_is_enemy_panel(sct) THEN EmptyPanel
  ELSE IF sct.hp.raises THEN EmptyPanel
  ELSE IF sct.mp.raises
    THEN HpSection(EmptyPanel, _ocr_pair(sct.hp.nums, _MAX_PLAUSIBLE_HP))
  ELSE MpSection(HpSection(EmptyPanel, _ocr_pair(sct.hp.nums, _MAX_PLAUSIBLE_HP)),
                 _ocr_pair(sct.mp.nums, _MAX_PLAUSIBLE_MANA))

\* ------------------------------------------------------- read_target_panel alone

\* what OCR finds in the HP region: nothing, one number, a pair, regen
\* overshoot, implausible pairs
HpTexts == {<<>>, <<500>>, <<500, 850>>, <<0, 850>>, <<860, 850>>, <<990, 850>>,
            <<5, 8>>, <<500, 9000>>, <<850, 850, 3>>}

MpTexts == {<<>>, <<300, 450>>, <<0, 0>>, <<450, 450>>}

Regions(texts) ==
  {[raises |-> FALSE, nums |-> t] : t \in texts} \cup {[raises |-> TRUE, nums |-> <<>>]}

\* a red bar is an enemy's panel, a green bar an ally's, none: no panel
Screens ==
  [ocr_ready : BOOLEAN, bar : {"red", "green", "none"},
   hp : Regions(HpTexts), mp : Regions(MpTexts)]

InitPanel ==
  /\ pc = "screen"
  /\ call = NoCall
  /\ result = NoResult
  /\ text = <<>>
  /\ rank_query = NoQuery
  /\ base_damage = NoResult
  /\ ClientIdle
  /\ screen \in Screens
  /\ panel = NoPanel
  /\ LoopIdle
  /\ TablesIdle
  /\ ProbeIdle
  /\ OverlayIdle

\* panel = read_target_panel(sct)
ReadPanel ==
  /\ pc = "screen"
  /\ panel' = read_target_panel(screen)
  /\ pc' = "panel_read"
  /\ UNCHANGED <<call, result, text, rank_query, base_damage, screen>>
  /\ UNCHANGED <<client_vars, loop_vars, tables>>
  /\ UNCHANGED <<probe_vars, overlay_vars>>

NextPanel == ReadPanel

SpecPanel == InitPanel /\ [][NextPanel]_vars

\* C20: when the bar of the panel is not red (an ally's green bar, or no
\* panel), read_target_panel returns panel_active = False and every HP and
\* mana value None.
C20_OnlyEnemyPanelIsRead ==
  (pc = "panel_read" /\ screen.bar # "red") => panel = EmptyPanel

\* ... as holds of the flag and the HP values when OCR is not installed or
\* finds no plausible HP pair
C20_NoHpPairNoReading ==
  (pc = "panel_read"
     /\ (~screen.ocr_ready \/ screen.hp.raises
           \/ _ocr_pair(screen.hp.nums, _MAX_PLAUSIBLE_HP) = None)) =>
    /\ ~panel.panel_active
    /\ panel.hp_current = None /\ panel.hp_max = None /\ panel.hp_percent = None

\* ------------------------------------------------------- main.py

CPU_THROTTLE_PCT == 75

\* e.get("hp_percent") or 1.0
HpKey(e) == IF Truthy(Get(e, "hp_percent", None)) THEN e.hp_percent[1] ELSE Unit

\* min(alive, key=...): the first of the alive enemies with the least key
RECURSIVE MinByHp(_)
MinByHp(alive) ==
  IF Len(alive) = 1 THEN alive[1]
  ELSE IF HpKey(MinByHp(Tail(alive))) < HpKey(Head(alive))
  THEN MinByHp(Tail(alive)) ELSE Head(alive)

\* pick_target that returns the locked slot's enemy without looking at
\* is_dead: a variant C28 must tell from pick_target
pick_target_lock_first(enemies, locked) ==
  IF SelectSeq(enemies, LAMBDA e : ~Get(e, "is_dead", FALSE)) = <<>> THEN None
  ELSE IF locked # None /\ locked[1] < Len(enemies)
  THEN Some(enemies[locked[1] + 1])
  ELSE Some(MinByHp(SelectSeq(enemies, LAMBDA e : ~Get(e, "is_dead", FALSE))))

\* pick_target(enemies) under the locked index _locked_target_idx: None, or
\* the target
pick_target(enemies, locked) ==
  IF SelectSeq(enemies, LAMBDA e : ~Get(e, "is_dead", FALSE)) = <<>> THEN None
  ELSE IF locked # None /\ locked[1] < Len(enemies)
          /\ ~Get(enemies[locked[1] + 1], "is_dead", FALSE)
  THEN Some(enemies[locked[1] + 1])
  ELSE Some(MinByHp(SelectSeq(enemies, LAMBDA e : ~Get(e, "is_dead", FALSE))))

\* panel.get(key): None when the key is missing or holds None
PanelGet(p, key) == Get(p, key, None)

\* panel.get("panel_active")
PanelActive(p) == Get(p, "panel_active", FALSE)

\* the target after the panel's readings or the cached HP were written to it
\* (the panel reads whole HP, the calculator's unit is the hundredth)
Injected(target, p, last_known_hp) ==
  IF PanelActive(p)
  THEN (IF PanelGet(p, "hp_max") # None
        THEN ("hp_max_real" :> Some(p.hp_max[1] * Centi)) ELSE <<>>)
       @@ (IF PanelGet(p, "hp_current") # None
           THEN ("hp_current" :> Some(p.hp_current[1] * Centi)) ELSE <<>>)
       @@ (IF PanelGet(p, "hp_percent") # None
           THEN ("hp_percent" :> p.hp_percent) ELSE <<>>)
       @@ target
  ELSE IF Get(target, "champion", "") \in DOMAIN last_known_hp
  THEN ("hp_percent" :> Some(last_known_hp[Get(target, "champion", "")])) @@ target
  ELSE target

\* _last_known_hp after the same lines
Cached(target, p, last_known_hp) ==
  IF target # None /\ PanelActive(p) /\ PanelGet(p, "hp_percent") # None
  THEN (Get(target[1], "champion", "") :> p.hp_percent[1]) @@ last_known_hp
  ELSE last_known_hp

\* e.get("champion", "?")[:6]
FirstSix(name) ==
  CASE name = "Kha'Zix" -> "Kha'Zi"
    [] name = "Unknown" -> "Unknow"
    [] name = "Master Yi" -> "Master"
    [] OTHER -> name

\* slot_line before "  ".join: one (mark, name) pair per enemy
SlotLine(enemies, locked) ==
  [i \in DOMAIN enemies |->
     <<IF locked # None /\ locked[1] = i - 1 THEN "*" ELSE ToString(i),
       FirstSix(Get(enemies[i], "champion", "?"))>>]

\* overlay.update(text, verdict); overlay.show(), for a one-line message
Message(line) ==
  [header |-> <<>>, lines |-> <<line>>, verdict |-> "PAUSED", visible |-> TRUE]

\* what one pass of the loop body leaves: where it ended, the cache, the
\* overlay, and the panel, the arguments and the result of the calculator
\* when it got that far
Pass(branch, last_known_hp, shown, p, c, r) ==
  [branch |-> branch, cache |-> last_known_hp, overlay |-> shown, panel |-> p,
   call |-> c, result |-> r]

\* l.199-223: the calculator, then the overlay
RunCalculator(inp, last_known_hp, enemies, p, c) ==
  IF ResultOf(c).exc # ""
  THEN Pass("calc_failed", last_known_hp,
            Message("[ ERROR ] Calculation failed - retrying..."), p, c, ResultOf(c))
  ELSE Pass("shown", last_known_hp,
            [header |-> SlotLine(enemies, inp.locked),
             lines |-> format_result(ResultOf(c).value),
             verdict |-> IF ResultOf(c).value.paused THEN "PAUSED"
                         ELSE ResultOf(c).value.verdict,
             visible |-> TRUE],
            p, c, ResultOf(c))

\* l.171-210: the target, the injection and the cache, the arguments
WithTarget(inp, last_known_hp, my_state, game_time, enemies, p, target) ==
  IF target = None
  THEN Pass("no_target", last_known_hp,
            Message("[ WAITING ] All enemies dead / no target"), p, NoCall, NoResult)
  ELSE RunCalculator(inp, Cached(target, p, last_known_hp), enemies, p,
         Call(my_state, Injected(target[1], p, last_known_hp),
              Get(Injected(target[1], p, last_known_hp), "hp_percent", None),
              IF "hp_percent" \in DOMAIN my_state THEN Some(my_state.hp_percent)
              ELSE None,
              0, game_time))

\* l.151-171: the enemies and the panel
WithEnemies(inp, last_known_hp, shown, my_state, game_time, enemies) ==
  IF enemies = <<>>
  THEN Pass("no_enemies", last_known_hp,
            Message("[ WAITING ] No enemy data yet..."), NoPanel, NoCall, NoResult)
  ELSE WithTarget(inp, last_known_hp, my_state, game_time, enemies,
                  IF inp.sct = None THEN NoPanel ELSE read_target_panel(inp.sct[1]),
                  pick_target(enemies, inp.locked))

\* l.143-149: the snapshot of the attacker
WithMyState(inp, last_known_hp, shown, my_state, game_time) ==
  IF my_state = None
  THEN Pass("no_state", last_known_hp,
            Message("[ ERROR ] Cannot reach Live Client API"), NoPanel, NoCall, NoResult)
  ELSE WithEnemies(inp, last_known_hp, shown, my_state[1], game_time,
                   get_enemies_state(inp.api, get_my_team(inp.api_team, None)))

\* one pass of the body of `while app.running` with the calculator switched
\* on and the CPU below the throttle
LoopBody(inp, last_known_hp, shown) ==
  IF ~is_game_active(inp.api)
  THEN Pass("no_game", last_known_hp,
            Message("[ WAITING ] No active game detected..."), NoPanel, NoCall, NoResult)
  ELSE WithMyState(inp, last_known_hp, shown, get_my_state(inp.api),
                   get_game_time(inp.api))

\* ------------------------------------------------------- the polling loop

\* /activeplayer of the loop: down, the local player, and the local player
\* with an ability level no rank list holds
LoopActivePlayers ==
  {None,
   Some([summonerName |-> "me", level |-> 3,
         championStats |-> [currentHealth |-> 400 * Centi, maxHealth |-> 800 * Centi,
                            attackDamage |-> 115 * Centi],
         abilities |-> [Q |-> [abilityLevel |-> 2]]]),
   Some([summonerName |-> "me", level |-> 3,
         championStats |-> [currentHealth |-> 400 * Centi, maxHealth |-> 800 * Centi,
                            attackDamage |-> 115 * Centi],
         abilities |-> [Q |-> [abilityLevel |-> 0 - 6]]])}

\* /playerlist of the loop: down, no enemy, one enemy, two, a dead one
LoopPlayerLists ==
  {None,
   Some(<<Player("me", "Kha'Zix", "ORDER")>>),
   Some(<<Player("me", "Kha'Zix", "ORDER"), Player("foe", "Darius", "CHAOS")>>),
   Some(<<Player("me", "Kha'Zix", "ORDER"), Player("foe", "Darius", "CHAOS"),
          Player("mid", "Teemo", "CHAOS")>>),
   Some(<<Player("me", "Kha'Zix", "ORDER"),
          [Player("foe", "Darius", "CHAOS") EXCEPT !.isDead = TRUE]>>)}

\* the answers of one pass: the service down, or the game running
LoopApiStates ==
  {NoApi} \cup
  [gamestats : {Some([gameTime |-> 600 * 10])}, playerlist : LoopPlayerLists,
   activeplayer : LoopActivePlayers]

\* the screen of one pass: no screen capture, or an enemy's panel at two HP
\* values, or no readable panel
LoopScreens ==
  {None} \cup
  {Some([ocr_ready |-> TRUE, bar |-> "red", hp |-> [raises |-> FALSE, nums |-> t],
         mp |-> [raises |-> FALSE, nums |-> <<>>]]) :
     t \in {<<>>, <<500, 850>>, <<200, 850>>}}

\* what one pass reads from outside: the answers, the screen, the locked slot;
\* api_team is what the requests of get_my_team are answered, here the same
\* as the other requests of the pass
PassInputs ==
  {[api |-> a, api_team |-> a, sct |-> sct, locked |-> locked] :
     a \in LoopApiStates, sct \in LoopScreens, locked \in {None, Some(1)}}

InitLoop ==
  /\ pc = "start"
  /\ call = NoCall
  /\ result = NoResult
  /\ text = <<>>
  /\ rank_query = NoQuery
  /\ base_damage = NoResult
  /\ ClientIdle
  /\ PanelIdle
  /\ LoopIdle
  /\ TablesIdle
  /\ ProbeIdle
  /\ OverlayIdle

\* a pass with the calculator switched off: overlay.hide()
TickInactive ==
  /\ pc' = "inactive"
  /\ overlay' = [overlay EXCEPT !.visible = FALSE]
  /\ call' = NoCall
  /\ result' = NoResult
  /\ api' = NoApi
  /\ screen' = NoScreen
  /\ panel' = NoPanel
  /\ UNCHANGED <<text, rank_query, base_damage, reply, cache, tables>>
  /\ UNCHANGED <<probe_vars, overlay_vars>>

\* a pass with the CPU above the throttle: nothing is read or shown
TickThrottled ==
  /\ \E cpu \in {80, 100} : cpu > CPU_THROTTLE_PCT
  /\ pc' = "throttled"
  /\ call' = NoCall
  /\ result' = NoResult
  /\ api' = NoApi
  /\ screen' = NoScreen
  /\ panel' = NoPanel
  /\ UNCHANGED <<text, rank_query, base_damage, reply, cache, overlay, tables>>
  /\ UNCHANGED <<probe_vars, overlay_vars>>

\* the state after a pass
Passed(inp, pass) ==
  /\ pc' = pass.branch
  /\ cache' = pass.cache
  /\ overlay' = pass.overlay
  /\ panel' = pass.panel
  /\ call' = pass.call
  /\ result' = pass.result
  /\ api' = inp.api
  /\ screen' = IF inp.sct = None THEN NoScreen ELSE inp.sct[1]
  /\ UNCHANGED <<text, rank_query, base_damage, reply, tables>>
  /\ UNCHANGED <<probe_vars, overlay_vars>>

\* a pass with the calculator switched on
Tick == \E inp \in PassInputs : Passed(inp, LoopBody(inp, cache, overlay))

NextLoop == TickInactive \/ TickThrottled \/ Tick

SpecLoop == InitLoop /\ [][NextLoop]_vars

\* the messages of a pass that could not evaluate
WaitingOrError ==
  {Message("[ WAITING ] No active game detected..."),
   Message("[ ERROR ] Cannot reach Live Client API")}

\* C18: a pass without the attacker's snapshot does not call the calculator
\* and shows a waiting or error message; a pass in which the calculator
\* raises shows the error message and leaves the loop running, and whatever
\* the next pass reads, it calls the calculator with the same arguments and
\* shows the same as it would have without the failed pass.
C18_FailedPassLeavesNoTrace ==
  [][/\ (pc' \notin {"inactive", "throttled"} /\ get_my_state(api') = None) =>
          (call' = NoCall /\ result' = NoResult /\ overlay' \in WaitingOrError)
     /\ (pc' = "calc_failed") =>
          /\ overlay' = Message("[ ERROR ] Calculation failed - retrying...")
          /\ ENABLED Tick
          /\ \/ cache' = cache
             \/ \A inp \in PassInputs :
                  /\ LoopBody(inp, cache', overlay').call
                       = LoopBody(inp, cache, overlay).call
                  /\ LoopBody(inp, cache', overlay').overlay
                       = LoopBody(inp, cache, overlay).overlay]_vars

\* ... of which the first part and the message of the failed pass hold
C18_UnavailableOrFailedIsShown ==
  [][/\ (pc' \notin {"inactive", "throttled"} /\ get_my_state(api') = None) =>
          (call' = NoCall /\ result' = NoResult /\ overlay' \in WaitingOrError)
     /\ (pc' = "calc_failed") =>
          /\ overlay' = Message("[ ERROR ] Calculation failed - retrying...")
          /\ call' # NoCall /\ result'.exc = "IndexError"]_vars

\* ------------------------------------------------------- calculate_kill_chance and the objects it is handed

\* the module-level tables, as imported by kill_calculator.py
StaticTables ==
  [CHAMPION_STATS |-> CHAMPION_STATS, CHAMPION_COMBOS |-> CHAMPION_COMBOS,
   ITEM_STATS |-> ITEM_STATS, ACTIVE_DAMAGE_ITEMS |-> ACTIVE_DAMAGE_ITEMS,
   SUMMONER_ADJUSTMENTS |-> SUMMONER_ADJUSTMENTS]

\* the key of the row get_combo hands out
ComboKey(t, champion_name) ==
  IF ChampionKey(champion_name) \in DOMAIN t.CHAMPION_COMBOS
  THEN ChampionKey(champion_name) ELSE "_default"

\* the run got as far as the combo suggestion
ReachesCombo(c) == ResultOf(c).exc = "" /\ ~ResultOf(c).value.paused

\* what the call returns when the tables are t: the combo suggestion is read
\* from the row of t at the end of the call
ResultOn(t, c) ==
  IF ~ReachesCombo(c) THEN ResultOf(c)
  ELSE Returned([ResultOf(c).value EXCEPT
         !.combo_label =
            ExtendLabel(t.CHAMPION_COMBOS[ComboKey(t, Get(c.my_state, "champion", "_default"))],
                        CallLocals(c).active_items_used).label,
         !.spell_order =
            t.CHAMPION_COMBOS[ComboKey(t, Get(c.my_state, "champion", "_default"))].spell_order])

\* the tables after the call: the only object of a table the call holds and
\* assigns from is the combo row
TablesAfter(t, c) ==
  IF ~ReachesCombo(c) THEN t
  ELSE [t EXCEPT !.CHAMPION_COMBOS[ComboKey(t, Get(c.my_state, "champion", "_default"))] =
          ExtendLabel(@, CallLocals(c).active_items_used).combo]

\* calls with and without active items, a dead target, a rank no list holds
PureCalls ==
  {Call([MyBase EXCEPT !.champion = mc, !.total_ad = ad, !.items = my_items,
                       !.spell_ranks = ranks],
        [EnemyBase EXCEPT !.champion = "Darius", !.level = 6, !.items = items,
                          !.is_dead = dead],
        None, None, 0, 600 * 10) :
     mc \in {"Teemo", "Kha'Zix", "Warwick"},
     ad \in ADs,
     my_items \in {<<>>, <<"Galeforce">>, <<"Doran's Blade", "Hextech Rocketbelt">>},
     ranks \in {[k \in {"q", "w", "e", "r"} |-> 1], [k \in {"q", "w", "e", "r"} |-> 0 - 6]},
     items \in {<<>>, <<"Guardian Angel">>},
     dead \in BOOLEAN}

InitPure ==
  /\ pc = "call"
  /\ call \in PureCalls
  /\ result = NoResult
  /\ text = <<>>
  /\ rank_query = NoQuery
  /\ base_damage = NoResult
  /\ ClientIdle
  /\ PanelIdle
  /\ LoopIdle
  /\ tables = StaticTables
  /\ ProbeIdle
  /\ OverlayIdle

\* result = calculate_kill_chance(...), with the tables and the arguments as
\* the objects they are: the call assigns to neither of its snapshots
CalculateOnTables ==
  /\ pc = "call"
  /\ result' = ResultOn(tables, call)
  /\ tables' = TablesAfter(tables, call)
  /\ pc' = IF result'.exc = "" THEN "evaluated" ELSE "raised"
  /\ UNCHANGED <<call, text, rank_query, base_damage>>
  /\ UNCHANGED <<client_vars, panel_vars, loop_vars>>
  /\ UNCHANGED <<probe_vars, overlay_vars>>

\* the caller's next call
NextCall ==
  /\ pc \in {"evaluated", "raised"}
  /\ call' \in PureCalls
  /\ result' = NoResult
  /\ pc' = "call"
  /\ UNCHANGED <<text, rank_query, base_damage, tables>>
  /\ UNCHANGED <<client_vars, panel_vars, loop_vars>>
  /\ UNCHANGED <<probe_vars, overlay_vars>>

NextPure == CalculateOnTables \/ NextCall

SpecPure == InitPure /\ [][NextPure]_vars

\* C19: a call leaves its two snapshots and the five tables as they were, and
\* whatever calls came before, it returns what the same arguments return on
\* the tables as imported.
C19_CallIsPure ==
  [][pc = "call" =>
       /\ call' = call
       /\ tables' = tables
       /\ tables' = StaticTables
       /\ result' = ResultOf(call)]_vars

\* a call that used active items and extended the combo label has returned,
\* after an earlier call
C19_Witness ==
  /\ NonPaused
  /\ CallLocals(call).active_items_used # <<>>
  /\ result.value.combo_label # get_combo(call.my_state.champion).combo_label
  /\ get_combo(call.my_state.champion) # CHAMPION_COMBOS["_default"]
  /\ tables = StaticTables

\* ------------------------------------------------------- the resistances

\* _dmg_reduction and _mr_reduction are probed at the armors
\* k * ArmorStep for k in -MaxArmor .. MaxArmor, and one hundredth either
\* side of zero
MaxArmor == 40

\* 12.5 points of armor
ArmorStep == 1250

Armors == {k * ArmorStep : k \in (0 - MaxArmor)..MaxArmor} \cup {0 - 1, 1}

\* calls that vary the attacker's penetration and the target's resistances
ArmorCalls ==
  {Call([MyBase EXCEPT !.champion = mc, !.level = pen.level,
                       !.lethality = pen.lethality,
                       !.armor_pen_pct = pen.armor_pen_pct,
                       !.magic_pen_flat = magic_pen_flat,
                       !.items = my_items],
        [EnemyBase EXCEPT !.champion = ec, !.level = level, !.items = items],
        None, None, 0, 600 * 10) :
     mc \in {"Kha'Zix", "Warwick", "Master Yi"},
     pen \in [level : {1, 18}, lethality : {0, 10 * Centi, 100 * Centi},
              armor_pen_pct : {0, 3000, Unit}],
     magic_pen_flat \in {0, 15 * Centi, 100 * Centi},
     my_items \in {<<>>, <<"Galeforce", "Hextech Rocketbelt", "Youmuu's Ghostblade">>},
     ec \in {"Unknown", "Darius"},
     level \in {1, 11},
     items \in {<<>>, <<"Death's Dance">>}}

\* either a call of the calculator, or a probe of the two helpers
InitArmor ==
  /\ pc \in {"call", "probe"}
  /\ call \in IF pc = "call" THEN ArmorCalls ELSE {NoCall}
  /\ result = NoResult
  /\ text = <<>>
  /\ rank_query = NoQuery
  /\ base_damage = NoResult
  /\ ClientIdle
  /\ PanelIdle
  /\ LoopIdle
  /\ TablesIdle
  /\ probe \in IF pc = "probe" THEN Armors ELSE {NoProbe}
  /\ probed = NoProbe
  /\ OverlayIdle

\* _dmg_reduction(armor) and _mr_reduction(armor)
Reduce ==
  /\ pc = "probe"
  /\ probed' = [dmg |-> _dmg_reduction(probe), mr |-> _mr_reduction(probe)]
  /\ pc' = "probed"
  /\ UNCHANGED <<call, result, text, rank_query, base_damage, probe>>
  /\ UNCHANGED <<client_vars, panel_vars, loop_vars, tables, overlay_vars>>

NextArmor == Calculate \/ Reduce

SpecArmor == InitArmor /\ [][NextArmor]_vars

\* armor * (1 - armor_pen_pct) - lethality * (0.6 + 0.4 * level / 18), floored
StatedEffArmor(armor, my_state) ==
  Max(0, Scale(armor, Unit - my_state.armor_pen_pct, Unit)
           - (my_state.lethality * 6 * 18 + my_state.lethality * 4 * my_state.level)
               \div (10 * 18))

\* 0 < multiplier <= 1
InUnitInterval(multiplier) == 0 < multiplier.n /\ multiplier.n <= multiplier.d

\* C21: the effective armor is armor * (1 - armor_pen_pct) minus
\* lethality * (0.6 + 0.4 * level / 18), floored at zero, the effective MR is
\* max(0, mr - magic_pen_flat), and both multipliers of an evaluation are in
\* (0, 1]; _dmg_reduction gives 1 at armor 0, 1/2 at armor 100, and a value
\* strictly between 1 and 2 at every negative armor.
C21_ResistanceMultipliers ==
  /\ NonPaused =>
       /\ CallLocals(call).eff_armor
            = StatedEffArmor(result.value.enemy_armor_used, call.my_state)
       /\ CallLocals(call).eff_mr
            = Max(0, result.value.enemy_mr_used - call.my_state.magic_pen_flat)
       /\ InUnitInterval(_dmg_reduction(CallLocals(call).eff_armor))
       /\ InUnitInterval(_mr_reduction(CallLocals(call).eff_mr))
  /\ pc = "probed" =>
       /\ probe = 0 => probed.dmg.n = probed.dmg.d
       /\ probe = 100 * Centi => 2 * probed.dmg.n = probed.dmg.d
       /\ probe < 0 => (probed.dmg.d < probed.dmg.n /\ probed.dmg.n < 2 * probed.dmg.d)

\* an evaluation whose penetration exceeds the armor and the MR: both floors
\* act
C21_Witness ==
  /\ NonPaused
  /\ _calc_effective_armor_unfloored(result.value.enemy_armor_used, call.my_state) < 0
  /\ result.value.enemy_mr_used < call.my_state.magic_pen_flat
  /\ CallLocals(call).eff_armor = 0
  /\ result.value.real_damage = result.value.raw_damage
  /\ result.value.raw_damage > 0


\* ------------------------------------------------------- the damage dealt

\* the raw damage of the components of the attacker's combo whose type is
\* one of types, from component i on
RECURSIVE RawOfTypes(_, _, _, _)
RawOfTypes(c, comps, i, types) ==
  IF i > Len(comps) THEN 0
  ELSE (IF comps[i].type \in types
        THEN ComponentRaw(comps[i], c.my_state.total_ad, c.my_state.ap,
                          _build_enemy_stats(c.enemy, c.enemy_hp_percent).max_hp,
                          c.my_state.spell_ranks).value
        ELSE 0)
       + RawOfTypes(c, comps, i + 1, types)

\* the raw damage of the call's combo components of the given types
RawDamage(c, types) ==
  RawOfTypes(c, get_combo(c.my_state.champion).damage_components, 1, types)

\* the types of damage a combo component can have
DamageTypes == {"physical", "magic", "true"}

\* what the attacker's items add: each item of positive flat damage adds it,
\* times the armor multiplier when its type is physical
RECURSIVE StatedActiveDamage(_, _)
StatedActiveDamage(items, armor_mult) ==
  IF items = <<>> THEN 0
  ELSE LET act == get_active_damage(Head(items))
       IN  (IF Get(act, "damage", 0) <= 0 THEN 0
            ELSE IF act.type = "physical" THEN Times(act.damage, armor_mult)
            ELSE act.damage)
           + StatedActiveDamage(Tail(items), armor_mult)

\* C22: the damage after mitigation is (raw physical + raw true) times the
\* armor multiplier, plus raw magic times the MR multiplier, plus the damage
\* of the attacker's active items, a physical item's damage times the armor
\* multiplier and any other item's damage as it is; raw_damage is the sum of
\* the raw components without the active items.
C22_DamageAfterMitigation ==
  NonPaused =>
    LET armor_mult == _dmg_reduction(CallLocals(call).eff_armor)
        mr_mult    == _mr_reduction(CallLocals(call).eff_mr)
        active     == StatedActiveDamage(call.my_state.items, armor_mult)
    IN  /\ result.value.real_damage
             = RoundTo(Times(RawDamage(call, {"physical", "true"}), armor_mult)
                         + Times(RawDamage(call, {"magic"}), mr_mult)
                         + active, 10)
        /\ result.value.active_item_damage = RoundTo(active, 10)
        /\ result.value.raw_damage = RoundTo(RawDamage(call, DamageTypes), 10)

\* an attacker with true damage, and one with magic damage, holding a
\* physical and a magic active item against armor and MR that reduce
C22_Witness ==
  /\ NonPaused
  /\ call.my_state.champion \in {"Master Yi", "Warwick"}
  /\ RawDamage(call, {"true", "magic"}) > 0
  /\ Len(call.my_state.items) = 3
  /\ CallLocals(call).eff_armor > 0
  /\ CallLocals(call).eff_mr > 0
  /\ CallLocals(call).eff_armor # CallLocals(call).eff_mr
  /\ result.value.active_item_damage > 125 * Centi
  /\ result.value.active_item_damage < 275 * Centi
  /\ result.value.real_damage < result.value.raw_damage + result.value.active_item_damage

\* ------------------------------------------------------- the effective HP

\* hp times the HP multipliers of the held summoner spells
RECURSIVE TimesHpModifiers(_, _)
TimesHpModifiers(hp, summoners) ==
  IF summoners = <<>> THEN hp
  ELSE LET adj == Get(SUMMONER_ADJUSTMENTS, Head(summoners), <<>>)
       IN  TimesHpModifiers(IF "hp_modifier" \in DOMAIN adj
                            THEN Scale(hp, adj.hp_modifier, Centi) ELSE hp,
                            Tail(summoners))

\* dmg times the damage multipliers of the held summoner spells
RECURSIVE TimesDmgModifiers(_, _)
TimesDmgModifiers(dmg, summoners) ==
  IF summoners = <<>> THEN dmg
  ELSE LET adj == Get(SUMMONER_ADJUSTMENTS, Head(summoners), <<>>)
       IN  TimesDmgModifiers(IF "my_dmg_modifier" \in DOMAIN adj
                             THEN Scale(dmg, adj.my_dmg_modifier, Centi) ELSE dmg,
                             Tail(summoners))

\* a damage-delay item is held
HoldsDeathsDance(items) ==
  \E i \in DOMAIN items : _normalize_item_key(items[i]) = "deaths_dance"

\* ((max_hp * hp_fraction) + flat shields), * 1.15 under a damage-delay item,
\* * the HP multipliers of the summoner spells
StatedEffectiveHp(c) ==
  LET enemy_stats == _build_enemy_stats(c.enemy, c.enemy_hp_percent)
  IN  TimesHpModifiers(
        Scale(Scale(enemy_stats.max_hp, enemy_stats.hp_percent, Unit)
                + FlatShieldSum(c.enemy.items),
              IF HoldsDeathsDance(c.enemy.items) THEN 115 ELSE 100, Centi),
        c.enemy.summoners)

\* the two quantities of the kill ratio are the stated ones
EffectiveHpAndDamageAsStated ==
  /\ CallLocals(call).effective_hp = StatedEffectiveHp(call)
  /\ CallLocals(call).adjusted_dealt
       = TimesDmgModifiers(CallLocals(call).total_dealt, call.enemy.summoners)
  /\ CallLocals(call).kill_ratio
       = Ratio(TimesDmgModifiers(CallLocals(call).total_dealt, call.enemy.summoners),
               Max(StatedEffectiveHp(call), Centi))

\* C23: the effective HP of the kill ratio is (max_hp * hp_fraction + the
\* flat shields), times 1.15 when a damage-delay item is held, times the HP
\* multipliers of the held summoner spells; a damage multiplier scales only
\* the damage dealt, active items included, and an HP multiplier only the HP.
C23_EffectiveHpOfKillRatio == NonPaused => EffectiveHpAndDamageAsStated

\* ... which holds of every target that holds no shield stored as a fraction
\* of max HP
C23_HoldsWithoutFractionShield ==
  (NonPaused /\ ~\E i \in DOMAIN call.enemy.items :
                   _normalize_item_key(call.enemy.items[i]) = "sterak_gage")
    => EffectiveHpAndDamageAsStated

\* a target with two HP multipliers, and one with a damage multiplier and an
\* active item of the attacker, for which the statement holds
C23_HoldsWitness ==
  /\ NonPaused
  /\ EffectiveHpAndDamageAsStated
  /\ \/ call.enemy.summoners = <<"SummonerBarrier", "SummonerHeal">>
     \/ /\ call.enemy.summoners = <<"SummonerExhaust", "SummonerBarrier">>
        /\ result.value.active_item_damage > 0
        /\ HoldsDeathsDance(call.enemy.items)
        /\ CallLocals(call).adjusted_dealt < CallLocals(call).total_dealt

\* ------------------------------------------------------- the penalty

\* how many of the held summoner spells have the given modifier
SpellsWith(summoners, modifier) ==
  Cardinality({i \in DOMAIN summoners :
                 modifier \in DOMAIN Get(SUMMONER_ADJUSTMENTS, summoners[i], <<>>)})

\* how many of the held items are on the list of unknown cooldown states
UnknownStateItems(items) ==
  Cardinality({i \in DOMAIN items :
                 _normalize_item_key(items[i]) \in DOMAIN ITEM_CD_FLAGS})

\* the penalty, source by source
StatedPenalty(c) ==
  800 * ShieldEffects(c.enemy.items)
    + (IF HoldsDeathsDance(c.enemy.items) THEN 500 ELSE 0)
    + (IF HoldsRevive(c) THEN 2000 ELSE 0)
    + 800 * SpellsWith(c.enemy.summoners, "hp_modifier")
    + 1200 * SpellsWith(c.enemy.summoners, "my_dmg_modifier")
    + 500 * UnknownStateItems(c.enemy.items)

\* C24: the penalty before the cap is 0.08 per shield effect of the held
\* items, 0.05 for a damage-delay item, 0.20 for a revive item, 0.08 per
\* summoner spell with an HP multiplier, 0.12 per spell with a damage
\* multiplier and 0.05 per item of unknown cooldown state, and nothing else
\* (the solo-engage reminder is a flag without a penalty); past the value
\* recorded before the summoner spells, only their multipliers change the
\* effective HP and the damage.
C24_PenaltyBySource ==
  NonPaused =>
    /\ CallLocals(call).confidence_penalty = StatedPenalty(call)
    /\ CallLocals(call).effective_hp
         = TimesHpModifiers(CallLocals(call).effective_hp_items, call.enemy.summoners)
    /\ RoundTo(CallLocals(call).effective_hp_items, 10) = result.value.enemy_effective_hp
    /\ CallLocals(call).adjusted_dealt
         = TimesDmgModifiers(CallLocals(call).total_dealt, call.enemy.summoners)
    /\ RoundTo(CallLocals(call).total_dealt, 10) = result.value.real_damage

\* a solo engage on a target with a shield item of unknown cooldown state
\* and with both kinds of summoner spell
C24_Witness ==
  /\ NonPaused
  /\ call.allies_nearby = 0
  /\ Len(result.value.flags) > 0
  /\ UnknownStateItems(call.enemy.items) = 1
  /\ ShieldEffects(call.enemy.items) = 1
  /\ call.enemy.summoners = <<"SummonerExhaust", "SummonerBarrier">>
  /\ CallLocals(call).confidence_penalty = 3300

\* ------------------------------------------------------- the ranks

\* the query with every ability at the given rank
AtRank(query, rank) ==
  [query EXCEPT !.spell_ranks = [k \in {"q", "w", "e", "r"} |-> rank]]

\* the rank the query asks for, when it lists the abilities
QueriedRank(query) == query.spell_ranks["q"]

\* C25: the base damage does not decrease with the rank, from rank 0 (an
\* ability not learned yet) on: the lookup at a rank gives no more than the
\* lookup of the same component one rank higher.
C25_BaseDamageMonotonicInRank ==
  (pc = "looked_up" /\ rank_query.spell_ranks # <<>>
     /\ QueriedRank(rank_query) \in 0..(MaxRank - 1)) =>
    /\ base_damage.exc = ""
    /\ base_damage.value
         <= get_base_damage_at_rank(
              rank_query.component,
              AtRank(rank_query, QueriedRank(rank_query) + 1).spell_ranks).value

\* ... which holds from rank 1 on
C25_HoldsFromRankOne ==
  (pc = "looked_up" /\ rank_query.spell_ranks # <<>>
     /\ QueriedRank(rank_query) \in 1..(MaxRank - 1)) =>
    /\ base_damage.exc = ""
    /\ base_damage.value
         <= get_base_damage_at_rank(
              rank_query.component,
              AtRank(rank_query, QueriedRank(rank_query) + 1).spell_ranks).value

\* ------------------------------------------------------- the veto

\* C26: an evaluation whose accumulated penalty is at least 0.18 is never GO,
\* and one whose accumulated penalty is at least 0.38 is NO GO, however large
\* the kill ratio.
C26_PenaltyVetoesVerdict ==
  NonPaused =>
    /\ CallLocals(call).confidence_penalty >= 1800 => result.value.verdict # "GO"
    /\ CallLocals(call).confidence_penalty >= 3800 => result.value.verdict = "NO GO"

\* a combo that deals more than the effective HP of a target with a revive
\* item and two summoner spells that count: only the penalty keeps the
\* verdict at NO GO
C26_Witness ==
  /\ NonPaused
  /\ HoldsRevive(call)
  /\ CallLocals(call).kill_ratio > Unit
  /\ CallLocals(call).confidence_penalty >= 3800
  /\ result.value.verdict = "NO GO"

\* ... and with the revive item alone the verdict is RISKY
C26_RiskyWitness ==
  /\ NonPaused
  /\ HoldsRevive(call)
  /\ CallLocals(call).kill_ratio > Unit
  /\ CallLocals(call).confidence_penalty = 2000
  /\ result.value.verdict = "RISKY"

\* ------------------------------------------------------- the team of the pass

\* /playerlist with the local player on either side, a teammate and a foe
TeamPlayerLists ==
  {Some(<<Player("me", "Kha'Zix", "CHAOS"), Player("mate", "Teemo", "CHAOS"),
          Player("foe", "Darius", "ORDER")>>),
   Some(<<Player("me", "Kha'Zix", "ORDER"), Player("mate", "Teemo", "ORDER"),
          Player("foe", "Darius", "CHAOS")>>),
   Some(<<Player("foe", "Darius", "ORDER"),
          [Player("mate", "Teemo", "CHAOS") EXCEPT !.isDead = TRUE],
          Player("me", "Kha'Zix", "CHAOS")>>)}

\* the game as it is during a pass
TeamApiStates ==
  [gamestats : {Some([gameTime |-> 600 * 10])}, playerlist : TeamPlayerLists,
   activeplayer : LoopActivePlayers]

\* what the two requests of get_my_team may be answered while the game is
\* as in a: both, or one of them fails
TeamAnswers(a) ==
  {a, [a EXCEPT !.activeplayer = None], [a EXCEPT !.playerlist = None]}

\* the screen of a pass: no screen capture, or an enemy's panel
TeamScreens ==
  {None, Some([ocr_ready |-> TRUE, bar |-> "red",
               hp |-> [raises |-> FALSE, nums |-> <<500, 850>>],
               mp |-> [raises |-> FALSE, nums |-> <<>>]])}

\* the inputs of a pass whose requests are answered one by one
TeamInputs ==
  UNION {{[api |-> a, api_team |-> t, sct |-> sct, locked |-> locked] :
            t \in TeamAnswers(a), sct \in TeamScreens, locked \in {None, Some(1)}} :
         a \in TeamApiStates}

\* the state after a pass, with what get_my_team replied when it was called
PassedTeam(inp, pass) ==
  /\ pc' = pass.branch
  /\ cache' = pass.cache
  /\ overlay' = pass.overlay
  /\ panel' = pass.panel
  /\ call' = pass.call
  /\ result' = pass.result
  /\ api' = inp.api
  /\ reply' = IF pass.branch \in {"no_game", "no_state"} THEN NoReply
              ELSE [helper |-> "get_my_team", value |-> get_my_team(inp.api_team, None)]
  /\ screen' = IF inp.sct = None THEN NoScreen ELSE inp.sct[1]
  /\ UNCHANGED <<text, rank_query, base_damage, tables>>
  /\ UNCHANGED <<probe_vars, overlay_vars>>

TickTeam == \E inp \in TeamInputs : PassedTeam(inp, LoopBody(inp, cache, overlay))

NextTeam == TickTeam

SpecTeam == InitLoop /\ [][NextTeam]_vars

\* the team of the player of that name in /playerlist
TeamOf(a, name) == FirstNamed(a.playerlist[1], name)[1].team

\* the team of the local player
LocalTeam(a) == TeamOf(a, a.activeplayer[1].summonerName)

\* C27: the target handed to calculate_kill_chance is a player of the team
\* opposing the local player, also in a pass in which some of the requests
\* fail and others succeed.
C27_TargetIsOpponent ==
  call # NoCall => TeamOf(api, call.enemy.summoner_name) # LocalTeam(api)

\* ... which holds of the passes in which get_my_team gave the local
\* player's team
C27_HoldsWhenTeamIsFound ==
  (call # NoCall /\ reply.value = LocalTeam(api)) =>
    TeamOf(api, call.enemy.summoner_name) # LocalTeam(api)

\* ------------------------------------------------------- pick_target alone

\* the longest enemy list handed to pick_target
MaxEnemies == 3

\* the champion of each slot
SlotChampions == <<"Darius", "Teemo", "Vi", "Briar", "Warwick">>

\* what an enemy dict says about life and HP: hp_percent is None as
\* get_enemies_state leaves it, or a known fraction of a living enemy
EnemyKinds ==
  [is_dead : BOOLEAN, hp_percent : {None, Some(2500), Some(5000), Some(Unit)}]

\* the enemy lists of n slots
EnemyLists(n) ==
  {[i \in 1..n |-> [champion |-> SlotChampions[i], is_dead |-> kinds[i].is_dead,
                    hp_percent |-> kinds[i].hp_percent]] :
     kinds \in [1..n -> EnemyKinds]}

\* the slots ctrl+1 .. ctrl+5 lock, and ctrl+0 for none
LockedSlots == {None} \cup {Some(i) : i \in 0..4}

PickInputs ==
  [enemies : UNION {EnemyLists(n) : n \in 0..MaxEnemies}, locked : LockedSlots]

\* either a call of pick_target, or the polling loop
InitPick ==
  /\ pc \in {"pick", "start"}
  /\ call = NoCall
  /\ result = NoResult
  /\ text = <<>>
  /\ rank_query = NoQuery
  /\ base_damage = NoResult
  /\ ClientIdle
  /\ PanelIdle
  /\ LoopIdle
  /\ TablesIdle
  /\ probe \in IF pc = "pick" THEN PickInputs ELSE {NoProbe}
  /\ probed = NoProbe
  /\ OverlayIdle

\* pick_target(enemies) under the locked index
Pick ==
  /\ pc = "pick"
  /\ probed' = pick_target(probe.enemies, probe.locked)
  /\ pc' = "picked"
  /\ UNCHANGED <<call, result, text, rank_query, base_damage, probe>>
  /\ UNCHANGED <<client_vars, panel_vars, loop_vars, tables, overlay_vars>>

\* a pass of the polling loop
TickPick == pc \notin {"pick", "picked"} /\ TickTeam

NextPick == Pick \/ TickPick

SpecPick == InitPick /\ [][NextPick]_vars

\* the slots of the living enemies
Alive(enemies) == {i \in DOMAIN enemies : ~enemies[i].is_dead}

\* the HP fraction an enemy is ranked by: the known one, an unknown one
\* counting as full health
KnownHp(e) == IF e.hp_percent = None THEN Unit ELSE e.hp_percent[1]

\* a lock is set, in range, and on a living enemy
LockApplies(enemies, locked) ==
  locked # None /\ locked[1] + 1 \in Alive(enemies)

C28_LoopWitness ==
  /\ call # NoCall
  /\ \E i \in DOMAIN api.playerlist[1] : api.playerlist[1][i].isDead
  /\ ~call.enemy.is_dead

\* ------------------------------------------------------- the cache and death

\* the branches of a pass that come after get_enemies_state (main.py l.152)
SawEnemies == {"no_target", "shown", "calc_failed"}

\* the champions that get_enemies_state gave as dead in the pass that ended
\* in the given branch with the answers a
DeadIn(branch, a) ==
  IF branch \notin SawEnemies \/ a = NoApi \/ a.playerlist = None THEN {}
  ELSE {a.playerlist[1][i].championName :
          i \in {j \in DOMAIN a.playerlist[1] : a.playerlist[1][j].isDead}}

\* C29: the cache never makes an evaluation use an HP fraction observed
\* before the target's most recent death: when a pass has seen an enemy dead
\* and the next pass evaluates that enemy without an active panel reading,
\* the evaluation is at full health (no HP fraction is handed over).
C29_CacheForgetsDeath ==
  [][(/\ call' # NoCall
      /\ call'.enemy.champion \in DeadIn(pc, api)
      /\ ~PanelActive(panel'))
       => call'.enemy_hp_percent = None]_vars

\* ------------------------------------------------------- the overlay (overlay.py)

COLOR_GO == "#00ff88"

COLOR_RISKY == "#ffcc00"

COLOR_NOGO == "#ff4444"

COLOR_PAUSED == "#888888"

\* {...}.get(verdict, COLOR_PAUSED)
verdict_color(verdict) ==
  CASE verdict = "GO"     -> COLOR_GO
    [] verdict = "RISKY"  -> COLOR_RISKY
    [] verdict = "NO GO"  -> COLOR_NOGO
    [] verdict = "PAUSED" -> COLOR_PAUSED
    [] OTHER              -> COLOR_PAUSED

\* how many times the polling thread calls update
MaxUpdates == 3

\* the verdicts main_loop passes, and update's default
Verdicts == {"GO", "RISKY", "NO GO", "PAUSED"}

\* the text of the k-th call, as its lines: each call has a text of its own
TextOf(k) == <<"verdict line " \o ToString(k), "body " \o ToString(k)>>

\* the widgets after _setup_widgets
NewWindow == [border |-> COLOR_NOGO, first |-> "", fg |-> COLOR_NOGO, body |-> <<>>]

\* the object after __init__ and start(): _root is set unless tk failed
InitOverlay ==
  /\ pc = "overlay"
  /\ call = NoCall
  /\ result = NoResult
  /\ text = <<>>
  /\ rank_query = NoQuery
  /\ base_damage = NoResult
  /\ ClientIdle
  /\ PanelIdle
  /\ LoopIdle
  /\ TablesIdle
  /\ ProbeIdle
  /\ \E root \in BOOLEAN :
       kill_overlay = [_root |-> root, _pending_text |-> None,
                       _pending_verdict |-> "NO GO", _lock |-> "",
                       after |-> <<>>, window |-> NewWindow]
  /\ threads = [poll |-> [pc |-> "idle", calls |-> <<>>],
                ui   |-> [pc |-> "idle", callback |-> 0, text |-> None,
                          verdict |-> "", applied |-> {}]]

\* CanAcquire of an object without the lock: a variant C30 must tell from
\* CanAcquire
CanAcquireUnlocked(o) == o._lock \in {"", "poll", "ui"}

\* the lock of the object is free: `with self._lock` can be entered
CanAcquire(o) == o._lock = ""

\* the step of a thread inside the overlay leaves the rest as it is
OverlayStep ==
  /\ pc = "overlay"
  /\ UNCHANGED <<pc, call, result, text, rank_query, base_damage>>
  /\ UNCHANGED <<client_vars, panel_vars, loop_vars, tables, probe_vars>>

\* the polling thread calls update(text, verdict)
UpdateCall ==
  /\ OverlayStep
  /\ threads.poll.pc = "idle"
  /\ Len(threads.poll.calls) < MaxUpdates
  /\ \E verdict \in Verdicts :
       threads' = [threads EXCEPT !.poll.calls = Append(@, verdict),
                                  !.poll.pc = "acquire"]
  /\ UNCHANGED kill_overlay

\* with self._lock:
UpdateAcquire ==
  /\ OverlayStep
  /\ threads.poll.pc = "acquire"
  /\ CanAcquire(kill_overlay)
  /\ kill_overlay' = [kill_overlay EXCEPT !._lock = "poll"]
  /\ threads' = [threads EXCEPT !.poll.pc = "write_text"]

\* self._pending_text = text
UpdateWriteText ==
  /\ OverlayStep
  /\ threads.poll.pc = "write_text"
  /\ kill_overlay' = [kill_overlay EXCEPT
                        !._pending_text = Some(TextOf(Len(threads.poll.calls)))]
  /\ threads' = [threads EXCEPT !.poll.pc = "write_verdict"]

\* self._pending_verdict = verdict, and the end of the with block
UpdateWriteVerdict ==
  /\ OverlayStep
  /\ threads.poll.pc = "write_verdict"
  /\ kill_overlay' = [kill_overlay EXCEPT
                        !._pending_verdict = threads.poll.calls[Len(threads.poll.calls)],
                        !._lock = IF @ = "poll" THEN "" ELSE @]
  /\ threads' = [threads EXCEPT !.poll.pc = "schedule"]

\* if self._root: self._root.after(0, self._apply_update), which may raise
\* (the exception is swallowed)
UpdateSchedule ==
  /\ OverlayStep
  /\ threads.poll.pc = "schedule"
  /\ \E raises \in BOOLEAN :
       kill_overlay' = IF kill_overlay._root /\ ~raises
                       THEN [kill_overlay EXCEPT
                               !.after = Append(@, Len(threads.poll.calls))]
                       ELSE kill_overlay
  /\ threads' = [threads EXCEPT !.poll.pc = "idle"]

\* the event loop runs the next scheduled _apply_update
ApplyStart ==
  /\ OverlayStep
  /\ threads.ui.pc = "idle"
  /\ kill_overlay.after # <<>>
  /\ kill_overlay' = [kill_overlay EXCEPT !.after = Tail(@)]
  /\ threads' = [threads EXCEPT !.ui.pc = "acquire",
                                !.ui.callback = Head(kill_overlay.after)]

\* with self._lock:
ApplyAcquire ==
  /\ OverlayStep
  /\ threads.ui.pc = "acquire"
  /\ CanAcquire(kill_overlay)
  /\ kill_overlay' = [kill_overlay EXCEPT !._lock = "ui"]
  /\ threads' = [threads EXCEPT !.ui.pc = "read_text"]

\* text = self._pending_text
ApplyReadText ==
  /\ OverlayStep
  /\ threads.ui.pc = "read_text"
  /\ threads' = [threads EXCEPT !.ui.text = kill_overlay._pending_text,
                                !.ui.pc = "read_verdict"]
  /\ UNCHANGED kill_overlay

\* verdict = self._pending_verdict, and the end of the with block
ApplyReadVerdict ==
  /\ OverlayStep
  /\ threads.ui.pc = "read_verdict"
  /\ threads' = [threads EXCEPT !.ui.verdict = kill_overlay._pending_verdict,
                                !.ui.pc = "check"]
  /\ kill_overlay' = [kill_overlay EXCEPT !._lock = IF @ = "ui" THEN "" ELSE @]

\* if text is None: return
ApplyCheck ==
  /\ OverlayStep
  /\ threads.ui.pc = "check"
  /\ threads' = IF threads.ui.text = None
                THEN [threads EXCEPT !.ui.pc = "idle",
                                     !.ui.applied = @ \cup {threads.ui.callback}]
                ELSE [threads EXCEPT !.ui.pc = "border"]
  /\ UNCHANGED kill_overlay

\* self._border_frame.configure(bg=verdict_color)
ApplyBorder ==
  /\ OverlayStep
  /\ threads.ui.pc = "border"
  /\ kill_overlay' = [kill_overlay EXCEPT
                        !.window.border = verdict_color(threads.ui.verdict)]
  /\ threads' = [threads EXCEPT !.ui.pc = "verdict_label"]

\* self._verdict_label.configure(text=first, fg=verdict_color)
ApplyVerdictLabel ==
  /\ OverlayStep
  /\ threads.ui.pc = "verdict_label"
  /\ kill_overlay' = [kill_overlay EXCEPT
                        !.window.first = IF threads.ui.text[1] = <<>> THEN ""
                                         ELSE Head(threads.ui.text[1]),
                        !.window.fg = verdict_color(threads.ui.verdict)]
  /\ threads' = [threads EXCEPT !.ui.pc = "text_label"]

\* self._text_label.configure(text=body), and the return of the callback
ApplyTextLabel ==
  /\ OverlayStep
  /\ threads.ui.pc = "text_label"
  /\ kill_overlay' = [kill_overlay EXCEPT
                        !.window.body = IF Len(threads.ui.text[1]) > 1
                                        THEN Tail(threads.ui.text[1]) ELSE <<>>]
  /\ threads' = [threads EXCEPT !.ui.pc = "idle",
                                !.ui.applied = @ \cup {threads.ui.callback}]

NextOverlay ==
  \/ UpdateCall \/ UpdateAcquire \/ UpdateWriteText \/ UpdateWriteVerdict
  \/ UpdateSchedule
  \/ ApplyStart \/ ApplyAcquire \/ ApplyReadText \/ ApplyReadVerdict
  \/ ApplyCheck \/ ApplyBorder \/ ApplyVerdictLabel \/ ApplyTextLabel

SpecOverlay == InitOverlay /\ [][NextOverlay]_vars

\* what the window shows when the k-th call of update is applied
Shown(k) ==
  [border |-> verdict_color(threads.poll.calls[k]), first |-> Head(TextOf(k)),
   fg |-> verdict_color(threads.poll.calls[k]), body |-> Tail(TextOf(k))]

\* the positions of _apply_update after the with block
AfterRead == {"check", "border", "verdict_label", "text_label"}

\* C30: in every interleaving of update on the polling thread with
\* _apply_update on the UI thread, the text and the verdict that
\* _apply_update reads, and the text and the verdict colour the window holds
\* when _apply_update has returned, come from the same call of update; and
\* when the callback scheduled by the last call of update has run, the
\* window shows that call's text and verdict colour.
C30_TextAndVerdictOfOneCall ==
  pc = "overlay" =>
    /\ threads.ui.pc \in AfterRead =>
         \E k \in DOMAIN threads.poll.calls :
            /\ threads.ui.text = Some(TextOf(k))
            /\ threads.ui.verdict = threads.poll.calls[k]
    /\ threads.ui.pc = "idle" =>
         \/ kill_overlay.window = NewWindow
         \/ \E k \in DOMAIN threads.poll.calls : kill_overlay.window = Shown(k)
    /\ (threads.poll.pc = "idle" /\ Len(threads.poll.calls) \in threads.ui.applied) =>
         kill_overlay.window = Shown(Len(threads.poll.calls))

\* the callback that the first call scheduled reads what the second call
\* wrote, a different verdict, while the third call is inside the lock
C30_Witness ==
  /\ pc = "overlay"
  /\ threads.ui.pc = "check"
  /\ threads.ui.callback = 1
  /\ threads.ui.text = Some(TextOf(2))
  /\ threads.poll.calls = <<"GO", "NO GO", "RISKY">>
  /\ threads.poll.pc = "write_verdict"
  /\ kill_overlay.window = NewWindow

\* ... and the last call's callback has run after an earlier one showed an
\* earlier call
C30_LastAppliedWitness ==
  /\ pc = "overlay"
  /\ threads.poll.pc = "idle"
  /\ threads.poll.calls = <<"GO", "NO GO", "RISKY">>
  /\ threads.ui.applied = {1, 3}
  /\ kill_overlay.after = <<>>
  /\ kill_overlay.window = Shown(3)
====
